---------------------------- MODULE Spec2Model ----------------------------
(***************************************************************************)
(* A model of the AST rule-matching engine (AnalysisEngine), of the        *)
(* Analysis document's issue bookkeeping, and of the background analysis   *)
(* job with its cancel route.                                              *)
(*                                                                         *)
(* An AST is a heap of objects: a function from object ids 1..N to node    *)
(* records.  A node carries the primitive properties the engine reads      *)
(* (type, loc.start.line, loc.start.column, name, operator) and, in        *)
(* `links', its object-valued properties in key order.  The parsers are    *)
(* external libraries: what they return for a file is an input.            *)
(***************************************************************************)
EXTENDS Integers, Sequences, FiniteSets, TLC

\* The null reference (a property that is null, or a hole of an array).
Null == 0

---------------------------------------------------------------------------
(* AST objects *)

\* An object of the tree.  type = "" is an object without a `type' property.
Node(type, line, column, name, operator, links) ==
  [type |-> type, line |-> line, column |-> column, name |-> name,
   operator |-> operator, links |-> links]

\* A property holding one object (ref) and a property holding an array.
ObjectLink(key, ref) == [key |-> key, isArray |-> FALSE, refs |-> <<ref>>]
ArrayLink(key, refs) == [key |-> key, isArray |-> TRUE, refs |-> refs]

\* node[key], as the sequence of links with that key (empty: undefined).
LinksOf(heap, n, key) == SelectSeq(heap[n].links, LAMBDA l : l.key = key)

\* node[key] for a property holding one object; Null when absent.
Prop(heap, n, key) ==
  LET ls == LinksOf(heap, n, key)
  IN  IF ls = <<>> \/ ls[1].isArray THEN Null ELSE ls[1].refs[1]

\* node[key] for a property holding an array; <<>> when absent.
ArrayProp(heap, n, key) ==
  LET ls == LinksOf(heap, n, key)
  IN  IF ls = <<>> \/ ~ls[1].isArray THEN <<>> ELSE ls[1].refs

\* Array.prototype.indexOf, 0-based, -1 when absent.
IndexOf(refs, n) ==
  IF \E i \in 1..Len(refs) : refs[i] = n
  THEN (CHOOSE i \in 1..Len(refs) :
          refs[i] = n /\ \A j \in 1..(i - 1) : refs[j] # n) - 1
  ELSE -1

---------------------------------------------------------------------------
(* traverseAST: the visit sequence.  Each visit is the node handed to the  *)
(* callback together with the value written to node.parent just before.    *)

RECURSIVE traverseAST(_, _, _)
RECURSIVE TraverseKeys(_, _, _)
RECURSIVE TraverseArray(_, _, _, _, _)

traverseAST(heap, node, parent) ==
  IF node = Null
  THEN <<>>
  ELSE <<[node |-> node, parent |-> parent]>> \o TraverseKeys(heap, node, 1)

TraverseKeys(heap, node, k) ==
  IF k > Len(heap[node].links)
  THEN <<>>
  ELSE LET l == heap[node].links[k]
           here == IF l.key = "parent" THEN <<>>
                   ELSE IF l.isArray
                        THEN TraverseArray(heap, node, l.refs, 1, Len(l.refs))
                   ELSE IF l.refs[1] # Null /\ heap[l.refs[1]].type # ""
                        THEN traverseAST(heap, l.refs[1], node)
                        ELSE <<>>
       IN  here \o TraverseKeys(heap, node, k + 1)

\* The for-of loop over the children refs[lo..hi], in array order (the range
\* is halved so that a long array does not nest the evaluation deeply).
TraverseArray(heap, node, refs, lo, hi) ==
  IF lo > hi THEN <<>>
  ELSE IF lo = hi
    THEN (IF refs[lo] # Null THEN traverseAST(heap, refs[lo], node) ELSE <<>>)
  ELSE LET mid == (lo + hi) \div 2
       IN  TraverseArray(heap, node, refs, lo, mid)
           \o TraverseArray(heap, node, refs, mid + 1, hi)


---------------------------------------------------------------------------
(* Results of operations that may raise.  An exception is a value: an      *)
(* operation either returns or throws, and a caller that has no try/catch  *)
(* around it throws what its callee threw.                                 *)

Returned(v) == [threw |-> FALSE, error |-> "", value |-> v]
Thrown(e) == [threw |-> TRUE, error |-> e, value |-> <<>>]

\* The message of the RangeError V8 raises when recursion exhausts the stack.
StackOverflow == "Maximum call stack size exceeded"

\* A parsed tree: its heap, its root, and the engine function (if any) whose
\* walk over this tree raises; "none" for a tree every walk completes on.
Ast(heap, raises) == [heap |-> heap, root |-> 1, raises |-> raises]

\* What parseFile returns for a language it has no parser for.
NullAst == [heap |-> <<>>, root |-> Null, raises |-> "none"]

\* The walk of the whole tree.
Visits(ast) == traverseAST(ast.heap, ast.root, Null)

\* s[lo] + ... + s[hi]
RECURSIVE SumRange(_, _, _)
SumRange(s, lo, hi) ==
  IF lo > hi THEN 0
  ELSE IF lo = hi THEN s[lo]
  ELSE LET mid == (lo + hi) \div 2
       IN  SumRange(s, lo, mid) + SumRange(s, mid + 1, hi)

Sum(s) == SumRange(s, 1, Len(s))

\* ss[lo] \o ... \o ss[hi]
RECURSIVE FlattenRange(_, _, _)
FlattenRange(ss, lo, hi) ==
  IF lo > hi THEN <<>>
  ELSE IF lo = hi THEN ss[lo]
  ELSE LET mid == (lo + hi) \div 2
       IN  FlattenRange(ss, lo, mid) \o FlattenRange(ss, mid + 1, hi)

Flatten(ss) == FlattenRange(ss, 1, Len(ss))

Max(a, b) == IF a >= b THEN a ELSE b

---------------------------------------------------------------------------
(* Metrics *)

ComplexityTypes ==
  {"IfStatement", "ConditionalExpression", "SwitchCase", "ForStatement",
   "ForInStatement", "ForOfStatement", "WhileStatement", "DoWhileStatement",
   "CatchClause"}

\* The callback counting every logical expression.
ComplexityOfAnyLogical(n) ==
  IF n.type \in ComplexityTypes THEN 1
  ELSE IF n.type = "LogicalExpression" THEN 1
  ELSE 0

\* The callback of calculateComplexity: what one node adds.
ComplexityOf(n) ==
  IF n.type \in ComplexityTypes THEN 1
  ELSE IF n.type = "LogicalExpression" /\ n.operator \in {"&&", "||"} THEN 1
  ELSE 0

BaseComplexity == 1

calculateComplexity(ast) ==
  IF ast.raises = "calculateComplexity" THEN Thrown(StackOverflow)
  ELSE LET v == Visits(ast)
       IN  Returned(BaseComplexity
                    + Sum([i \in 1..Len(v) |-> ComplexityOf(ast.heap[v[i].node])]))

FunctionTypes ==
  {"FunctionDeclaration", "FunctionExpression", "ArrowFunctionExpression"}

countFunctions(ast) ==
  IF ast.raises = "countFunctions" THEN Thrown(StackOverflow)
  ELSE LET v == Visits(ast)
       IN  Returned(Cardinality({i \in 1..Len(v) :
                                   ast.heap[v[i].node].type \in FunctionTypes}))

countClasses(ast) ==
  IF ast.raises = "countClasses" THEN Thrown(StackOverflow)
  ELSE LET v == Visits(ast)
       IN  Returned(Cardinality({i \in 1..Len(v) :
                                   ast.heap[v[i].node].type = "ClassDeclaration"}))

LoopTypes == {"ForStatement", "WhileStatement", "DoWhileStatement"}

RECURSIVE findNestedLoops(_, _, _)
RECURSIVE NestedKeys(_, _, _, _)
RECURSIVE NestedArray(_, _, _, _, _)

findNestedLoops(heap, node, depth) ==
  LET d == IF heap[node].type \in LoopTypes THEN depth + 1 ELSE depth
  IN  Max(Max(depth, d), NestedKeys(heap, node, d, 1))

\* The for-in loop of findNestedLoops from key k on: the largest depth found.
NestedKeys(heap, node, depth, k) ==
  IF k > Len(heap[node].links)
  THEN depth
  ELSE LET l == heap[node].links[k]
           here == IF l.key = "parent" THEN depth
                   ELSE IF l.isArray
                        THEN NestedArray(heap, l.refs, depth, 1, Len(l.refs))
                   ELSE IF l.refs[1] # Null /\ heap[l.refs[1]].type # ""
                        THEN findNestedLoops(heap, l.refs[1], depth)
                        ELSE depth
       IN  Max(here, NestedKeys(heap, node, depth, k + 1))

\* The for-of loop of findNestedLoops over refs[lo..hi].
NestedArray(heap, refs, depth, lo, hi) ==
  IF lo > hi THEN depth
  ELSE IF lo = hi
    THEN (IF refs[lo] # Null THEN findNestedLoops(heap, refs[lo], depth) ELSE depth)
  ELSE LET mid == (lo + hi) \div 2
       IN  Max(NestedArray(heap, refs, depth, lo, mid),
               NestedArray(heap, refs, depth, mid + 1, hi))

---------------------------------------------------------------------------
(* The rule set of the engine (constructor) *)

ComplexityThreshold == 10
HighComplexity == 20
MaxNestedLoops == 2
MaxArrayElements == 1000

rules ==
  [complexity |-> [id |-> "complexity", name |-> "Cyclomatic Complexity",
                   category |-> "maintainability", enabled |-> TRUE,
                   threshold |-> ComplexityThreshold],
   security |-> [id |-> "security", name |-> "Security Vulnerabilities",
                 category |-> "security", enabled |-> TRUE],
   performance |-> [id |-> "performance", name |-> "Performance Issues",
                    category |-> "performance", enabled |-> TRUE],
   bugs |-> [id |-> "bugs", name |-> "Potential Bugs", category |-> "bug",
             enabled |-> TRUE],
   style |-> [id |-> "style", name |-> "Code Style", category |-> "style",
              enabled |-> FALSE]]

---------------------------------------------------------------------------
(* Findings.  A template string is kept as its parts: an id is its prefix, *)
(* the file path and the number interpolated into it; a title or a         *)
(* description is its text with the interpolated values.                   *)

NoPath == <<>>

IssueId(prefix, path, n) == [prefix |-> prefix, path |-> path, n |-> n]

Text(text, numbers, message) ==
  [text |-> text, numbers |-> numbers, message |-> message]

Issue(id, type, severity, title, description, path, line, column, rule) ==
  [id |-> id, type |-> type, severity |-> severity, title |-> title,
   description |-> description,
   file |-> [path |-> path, line |-> line, column |-> column],
   rule |-> rule]

Rule(id, name, category) == [id |-> id, name |-> name, category |-> category]

---------------------------------------------------------------------------
(* Analyzers.  `now' is the value Date.now() returns during the call.      *)

\* analyzeComplexity with the threshold compared by >= instead of >.
analyzeComplexityInclusive(ast, filePath, now) ==
  LET c == calculateComplexity(ast)
  IN  IF c.threw THEN c
      ELSE LET complexity == c.value
           IN  IF complexity >= rules.complexity.threshold
               THEN Returned(<<Issue(
                      IssueId("complexity", filePath, now),
                      "complexity",
                      IF complexity >= HighComplexity THEN "high" ELSE "medium",
                      Text("High Cyclomatic Complexity", <<complexity>>, ""),
                      Text("This file has a cyclomatic complexity which exceeds the recommended threshold",
                           <<complexity, rules.complexity.threshold>>, ""),
                      filePath, 1, 1, rules.complexity)>>)
               ELSE Returned(<<>>)

analyzeComplexity(ast, filePath, now) ==
  LET c == calculateComplexity(ast)
  IN  IF c.threw THEN c
      ELSE LET complexity == c.value
           IN  IF complexity > rules.complexity.threshold
               THEN Returned(<<Issue(
                      IssueId("complexity", filePath, now),
                      "complexity",
                      IF complexity > HighComplexity THEN "high" ELSE "medium",
                      Text("High Cyclomatic Complexity", <<complexity>>, ""),
                      Text("This file has a cyclomatic complexity which exceeds the recommended threshold",
                           <<complexity, rules.complexity.threshold>>, ""),
                      filePath, 1, 1, rules.complexity)>>)
               ELSE Returned(<<>>)

ExpressionLanguages == {"javascript", "typescript"}

\* SecurityCallback matching a callee whose property is named eval as well
\* (window.eval), and reporting one eval per line only.
SecurityCallbackLoose(heap, node, filePath) ==
  LET n == heap[node]
      callee == Prop(heap, node, "callee")
      property == IF callee = Null THEN Null ELSE Prop(heap, callee, "property")
  IN  IF n.type = "CallExpression" /\ callee # Null
         /\ (heap[callee].name = "eval"
             \/ (property # Null /\ heap[property].name = "eval"))
      THEN <<Issue(IssueId("security-eval", filePath, n.line), "security",
                   "critical", Text("Dangerous eval() usage", <<>>, ""),
                   Text("Using eval() can lead to code injection vulnerabilities.", <<>>, ""),
                   filePath, n.line, n.column,
                   Rule("no-eval", "No eval()", "security"))>>
      ELSE <<>>

\* The callback of analyzeSecurity: the issues one node adds.
SecurityCallback(heap, node, filePath) ==
  LET n == heap[node]
      callee == Prop(heap, node, "callee")
      property == Prop(heap, node, "property")
  IN  (IF n.type = "CallExpression" /\ callee # Null /\ heap[callee].name = "eval"
       THEN <<Issue(IssueId("security-eval", filePath, n.line), "security",
                    "critical", Text("Dangerous eval() usage", <<>>, ""),
                    Text("Using eval() can lead to code injection vulnerabilities.", <<>>, ""),
                    filePath, n.line, n.column,
                    Rule("no-eval", "No eval()", "security"))>>
       ELSE <<>>)
      \o
      (IF n.type = "MemberExpression" /\ property # Null
          /\ heap[property].name = "innerHTML"
       THEN <<Issue(IssueId("security-innerHTML", filePath, n.line), "security",
                    "high", Text("Potential XSS vulnerability", <<>>, ""),
                    Text("Direct innerHTML manipulation can lead to XSS attacks.", <<>>, ""),
                    filePath, n.line, n.column,
                    Rule("no-innerHTML", "No innerHTML", "security"))>>
       ELSE <<>>)

analyzeSecurity(ast, filePath, language) ==
  IF language \in ExpressionLanguages
  THEN IF ast.raises = "analyzeSecurity" THEN Thrown(StackOverflow)
       ELSE LET v == Visits(ast)
            IN  Returned(Flatten([i \in 1..Len(v) |->
                           SecurityCallback(ast.heap, v[i].node, filePath)]))
  ELSE Returned(<<>>)

\* PerformanceCallback flagging loops nested 2 levels deep already.
PerformanceCallbackFromTwo(heap, node, filePath) ==
  LET n == heap[node]
      nestedLoops == findNestedLoops(heap, node, 0)
      elements == ArrayProp(heap, node, "elements")
  IN  (IF n.type \in {"ForStatement", "WhileStatement"} /\ nestedLoops >= MaxNestedLoops
       THEN <<Issue(IssueId("performance-nested-loops", filePath, n.line),
                    "performance", "medium",
                    Text("Deeply nested loops (levels)", <<nestedLoops>>, ""),
                    Text("Deeply nested loops can cause performance issues.", <<>>, ""),
                    filePath, n.line, n.column,
                    Rule("max-nested-loops", "Maximum nested loops", "performance"))>>
       ELSE <<>>)
      \o
      (IF n.type = "ArrayExpression" /\ Len(elements) > MaxArrayElements
       THEN <<Issue(IssueId("performance-large-array", filePath, n.line),
                    "performance", "low",
                    Text("Large array literal", <<>>, ""),
                    Text("Array with elements may impact performance.",
                         <<Len(elements)>>, ""),
                    filePath, n.line, n.column,
                    Rule("max-array-size", "Maximum array size", "performance"))>>
       ELSE <<>>)

\* The callback of analyzePerformance.
PerformanceCallback(heap, node, filePath) ==
  LET n == heap[node]
      nestedLoops == findNestedLoops(heap, node, 0)
      elements == ArrayProp(heap, node, "elements")
  IN  (IF n.type \in {"ForStatement", "WhileStatement"} /\ nestedLoops > MaxNestedLoops
       THEN <<Issue(IssueId("performance-nested-loops", filePath, n.line),
                    "performance", "medium",
                    Text("Deeply nested loops (levels)", <<nestedLoops>>, ""),
                    Text("Deeply nested loops can cause performance issues.", <<>>, ""),
                    filePath, n.line, n.column,
                    Rule("max-nested-loops", "Maximum nested loops", "performance"))>>
       ELSE <<>>)
      \o
      (IF n.type = "ArrayExpression" /\ Len(elements) > MaxArrayElements
       THEN <<Issue(IssueId("performance-large-array", filePath, n.line),
                    "performance", "low",
                    Text("Large array literal", <<>>, ""),
                    Text("Array with elements may impact performance.",
                         <<Len(elements)>>, ""),
                    filePath, n.line, n.column,
                    Rule("max-array-size", "Maximum array size", "performance"))>>
       ELSE <<>>)

analyzePerformance(ast, filePath, language) ==
  IF language \in ExpressionLanguages
  THEN IF ast.raises = "analyzePerformance" THEN Thrown(StackOverflow)
       ELSE LET v == Visits(ast)
            IN  Returned(Flatten([i \in 1..Len(v) |->
                           PerformanceCallback(ast.heap, v[i].node, filePath)]))
  ELSE Returned(<<>>)

\* BugsCallback locating the unreachable-code issue at the return statement.
BugsCallbackAtReturn(heap, node, parent, filePath) ==
  LET n == heap[node]
      body == IF parent = Null THEN <<>> ELSE ArrayProp(heap, parent, "body")
      index == IndexOf(body, node)
      test == Prop(heap, node, "test")
  IN  (IF n.type = "ReturnStatement" /\ parent # Null
          /\ heap[parent].type = "BlockStatement" /\ index < Len(body) - 1
       THEN <<Issue(IssueId("bug-unreachable", filePath, n.line), "bug", "medium",
                    Text("Unreachable code after return", <<>>, ""),
                    Text("Code after return statement will never be executed.", <<>>, ""),
                    filePath, n.line, n.column,
                    Rule("no-unreachable", "No unreachable code", "bug"))>>
       ELSE <<>>)
      \o
      (IF n.type \in {"IfStatement", "WhileStatement"} /\ test # Null
          /\ heap[test].type = "AssignmentExpression"
       THEN <<Issue(IssueId("bug-assignment-condition", filePath, n.line), "bug",
                    "high", Text("Assignment in condition", <<>>, ""),
                    Text("Assignment in condition is likely a mistake. Did you mean to use == or ===?", <<>>, ""),
                    filePath, heap[test].line, heap[test].column,
                    Rule("no-assignment-in-condition", "No assignment in condition", "bug"))>>
       ELSE <<>>)

\* The callback of analyzeBugs; parent is node.parent.
BugsCallback(heap, node, parent, filePath) ==
  LET n == heap[node]
      body == IF parent = Null THEN <<>> ELSE ArrayProp(heap, parent, "body")
      index == IndexOf(body, node)
      test == Prop(heap, node, "test")
  IN  (IF n.type = "ReturnStatement" /\ parent # Null
          /\ heap[parent].type = "BlockStatement" /\ index < Len(body) - 1
       THEN <<Issue(IssueId("bug-unreachable", filePath, n.line), "bug", "medium",
                    Text("Unreachable code after return", <<>>, ""),
                    Text("Code after return statement will never be executed.", <<>>, ""),
                    filePath, heap[body[index + 2]].line, heap[body[index + 2]].column,
                    Rule("no-unreachable", "No unreachable code", "bug"))>>
       ELSE <<>>)
      \o
      (IF n.type \in {"IfStatement", "WhileStatement"} /\ test # Null
          /\ heap[test].type = "AssignmentExpression"
       THEN <<Issue(IssueId("bug-assignment-condition", filePath, n.line), "bug",
                    "high", Text("Assignment in condition", <<>>, ""),
                    Text("Assignment in condition is likely a mistake. Did you mean to use == or ===?", <<>>, ""),
                    filePath, heap[test].line, heap[test].column,
                    Rule("no-assignment-in-condition", "No assignment in condition", "bug"))>>
       ELSE <<>>)

analyzeBugs(ast, filePath, language) ==
  IF language \in ExpressionLanguages
  THEN IF ast.raises = "analyzeBugs" THEN Thrown(StackOverflow)
       ELSE LET v == Visits(ast)
            IN  Returned(Flatten([i \in 1..Len(v) |->
                           BugsCallback(ast.heap, v[i].node, v[i].parent, filePath)]))
  ELSE Returned(<<>>)

---------------------------------------------------------------------------
(* Parsing.  A file content is its characters together with what the       *)
(* JavaScript/TypeScript front-end makes of them (`syntax'): the front-ends *)
(* are libraries, and the engine reads the characters only to count lines.  *)

Content(chars, syntax) == [chars |-> chars, syntax |-> syntax]

\* A front-end outcome: a tree, or a SyntaxError with its message.
Parsed(ast) == [throws |-> FALSE, message |-> "", ast |-> ast]
Rejected(message) == [throws |-> TRUE, message |-> message, ast |-> NullAst]

\* esprima.parseScript / typescriptParse.
FrontEnd(content) ==
  IF content.syntax.throws THEN Thrown(content.syntax.message)
  ELSE Returned(content.syntax.ast)

\* The tree parsePython builds, whatever the content.
parsePython(content) ==
  Ast(<<Node("Module", 1, 0, "", "", <<ArrayLink("body", <<>>)>>)>>, "none")

parseFile(content, language) ==
  CASE language = "javascript" -> FrontEnd(content)
    [] language = "typescript" -> FrontEnd(content)
    [] language = "python" -> Returned(parsePython(content))
    [] OTHER -> Returned(NullAst)

\* content.split('\n').length
SplitLength(chars) == Cardinality({i \in 1..Len(chars) : chars[i] = "\n"}) + 1

---------------------------------------------------------------------------
(* analyzeFile *)

\* ParseErrorIssue with the message dropped and the location left at 0:0.
ParseErrorIssueBare(filePath, message, now) ==
  Issue(IssueId("parse-error", NoPath, now), "bug", "high",
        Text("Parse Error", <<>>, ""),
        Text("Failed to parse file: ", <<>>, ""),
        filePath, 0, 0, Rule("parse-error", "Parse Error", "syntax"))

\* ParseErrorIssue with the time stamp of the id in the rule id as well.
ParseErrorIssueStamped(filePath, message, now) ==
  Issue(IssueId("parse-error", NoPath, now), "bug", "high",
        Text("Parse Error", <<>>, ""),
        Text("Failed to parse file: ", <<>>, message),
        filePath, 1, 1, Rule(IssueId("parse-error", NoPath, now), "Parse Error", "syntax"))

ParseErrorIssue(filePath, message, now) ==
  Issue(IssueId("parse-error", NoPath, now), "bug", "high",
        Text("Parse Error", <<>>, ""),
        Text("Failed to parse file: ", <<>>, message),
        filePath, 1, 1, Rule("parse-error", "Parse Error", "syntax"))

FileResult(issues, metrics) == [issues |-> issues, metrics |-> metrics]

\* Caught with the error thrown on to the caller.
CaughtRethrows(issues, metrics, filePath, message, now) == Thrown(message)

\* The catch block of analyzeFile followed by its return.
Caught(issues, metrics, filePath, message, now) ==
  Returned(FileResult(Append(issues, ParseErrorIssue(filePath, message, now)),
                      metrics))

\* analyzeFile with the issues of analyzeBugs put first.
analyzeFileBugsFirst(filePath, content, language, now) ==
  LET metrics == [complexity |-> 0, lines |-> SplitLength(content.chars),
                  functions |-> 0, classes |-> 0]
      p == parseFile(content, language)
      ast == p.value
      a1 == analyzeComplexity(ast, filePath, now)
      a2 == analyzeSecurity(ast, filePath, language)
      a3 == analyzePerformance(ast, filePath, language)
      a4 == analyzeBugs(ast, filePath, language)
      m1 == calculateComplexity(ast)
      m2 == countFunctions(ast)
      m3 == countClasses(ast)
  IN  IF p.threw THEN Caught(<<>>, metrics, filePath, p.error, now)
      ELSE IF ast.root = Null THEN Returned(FileResult(<<>>, metrics))
      ELSE IF a1.threw THEN Caught(<<>>, metrics, filePath, a1.error, now)
      ELSE IF a2.threw THEN Caught(a1.value, metrics, filePath, a2.error, now)
      ELSE IF a3.threw
        THEN Caught(a1.value \o a2.value, metrics, filePath, a3.error, now)
      ELSE IF a4.threw
        THEN Caught(a1.value \o a2.value \o a3.value, metrics, filePath,
                    a4.error, now)
      ELSE LET issues == a4.value \o a1.value \o a2.value \o a3.value
           IN  IF m1.threw THEN Caught(issues, metrics, filePath, m1.error, now)
               ELSE IF m2.threw
                 THEN Caught(issues, [metrics EXCEPT !.complexity = m1.value],
                             filePath, m2.error, now)
               ELSE IF m3.threw
                 THEN Caught(issues,
                             [metrics EXCEPT !.complexity = m1.value,
                                             !.functions = m2.value],
                             filePath, m3.error, now)
               ELSE Returned(FileResult(issues,
                      [metrics EXCEPT !.complexity = m1.value,
                                      !.functions = m2.value,
                                      !.classes = m3.value]))

analyzeFile(filePath, content, language, now) ==
  LET metrics == [complexity |-> 0, lines |-> SplitLength(content.chars),
                  functions |-> 0, classes |-> 0]
      p == parseFile(content, language)
      ast == p.value
      a1 == analyzeComplexity(ast, filePath, now)
      a2 == analyzeSecurity(ast, filePath, language)
      a3 == analyzePerformance(ast, filePath, language)
      a4 == analyzeBugs(ast, filePath, language)
      m1 == calculateComplexity(ast)
      m2 == countFunctions(ast)
      m3 == countClasses(ast)
  IN  IF p.threw THEN Caught(<<>>, metrics, filePath, p.error, now)
      ELSE IF ast.root = Null THEN Returned(FileResult(<<>>, metrics))
      ELSE IF a1.threw THEN Caught(<<>>, metrics, filePath, a1.error, now)
      ELSE IF a2.threw THEN Caught(a1.value, metrics, filePath, a2.error, now)
      ELSE IF a3.threw
        THEN Caught(a1.value \o a2.value, metrics, filePath, a3.error, now)
      ELSE IF a4.threw
        THEN Caught(a1.value \o a2.value \o a3.value, metrics, filePath,
                    a4.error, now)
      ELSE LET issues == a1.value \o a2.value \o a3.value \o a4.value
           IN  IF m1.threw THEN Caught(issues, metrics, filePath, m1.error, now)
               ELSE IF m2.threw
                 THEN Caught(issues, [metrics EXCEPT !.complexity = m1.value],
                             filePath, m2.error, now)
               ELSE IF m3.threw
                 THEN Caught(issues,
                             [metrics EXCEPT !.complexity = m1.value,
                                             !.functions = m2.value],
                             filePath, m3.error, now)
               ELSE Returned(FileResult(issues,
                      [metrics EXCEPT !.complexity = m1.value,
                                      !.functions = m2.value,
                                      !.classes = m3.value]))

---------------------------------------------------------------------------
(* Trees the front-ends return.  The comment before each gives the source  *)
(* text it is the tree of.                                                 *)

\* if (a); ... n times, one per line.
IfChain(n) ==
  [i \in 1..(3 * n + 1) |->
     IF i = 1
     THEN Node("Program", 1, 0, "", "",
               <<ArrayLink("body", [k \in 1..n |-> 3 * k - 1])>>)
     ELSE CASE i % 3 = 2 ->
                 Node("IfStatement", (i + 1) \div 3, 0, "", "",
                      <<ObjectLink("test", i + 1), ObjectLink("consequent", i + 2),
                        ObjectLink("alternate", Null)>>)
            [] i % 3 = 0 -> Node("Identifier", (i + 1) \div 3, 4, "a", "", <<>>)
            [] OTHER -> Node("EmptyStatement", (i + 1) \div 3, 5, "", "", <<>>)]

\* for (;;) for (;;) ... ; d loops inside one another, one per line.
NestedFor(d) ==
  [i \in 1..(d + 2) |->
     IF i = 1 THEN Node("Program", 1, 0, "", "", <<ArrayLink("body", <<2>>)>>)
     ELSE IF i = d + 2 THEN Node("EmptyStatement", d + 1, 0, "", "", <<>>)
     ELSE Node("ForStatement", i - 1, 0, "", "",
               <<ObjectLink("init", Null), ObjectLink("test", Null),
                 ObjectLink("update", Null), ObjectLink("body", i + 1)>>)]

\* [0, 0, ..., 0] with n elements.
ArrayLiteral(n) ==
  [i \in 1..(n + 3) |->
     CASE i = 1 -> Node("Program", 1, 0, "", "", <<ArrayLink("body", <<2>>)>>)
       [] i = 2 -> Node("ExpressionStatement", 1, 0, "", "",
                        <<ObjectLink("expression", 3)>>)
       [] i = 3 -> Node("ArrayExpression", 1, 0, "", "",
                        <<ArrayLink("elements", [k \in 1..n |-> k + 3])>>)
       [] OTHER -> Node("Literal", 1, i, "", "", <<>>)]

\* eval(x)            line 1
\* foo()              line 2
\* eval(y); eval(z)   line 3
\* window.eval()      line 4
\* el.innerHTML = s   line 5
EvalScript ==
  <<
   (*  1 *) Node("Program", 1, 0, "", "",
               <<ArrayLink("body", <<2, 6, 9, 13, 17, 22>>)>>),
   (*  2 *) Node("ExpressionStatement", 1, 0, "", "",
               <<ObjectLink("expression", 3)>>),
   (*  3 *) Node("CallExpression", 1, 0, "", "",
               <<ObjectLink("callee", 4), ArrayLink("arguments", <<5>>)>>),
   (*  4 *) Node("Identifier", 1, 0, "eval", "",
               <<>>),
   (*  5 *) Node("Identifier", 1, 5, "x", "",
               <<>>),
   (*  6 *) Node("ExpressionStatement", 2, 0, "", "",
               <<ObjectLink("expression", 7)>>),
   (*  7 *) Node("CallExpression", 2, 0, "", "",
               <<ObjectLink("callee", 8), ArrayLink("arguments", <<>>)>>),
   (*  8 *) Node("Identifier", 2, 0, "foo", "",
               <<>>),
   (*  9 *) Node("ExpressionStatement", 3, 0, "", "",
               <<ObjectLink("expression", 10)>>),
   (* 10 *) Node("CallExpression", 3, 0, "", "",
               <<ObjectLink("callee", 11), ArrayLink("arguments", <<12>>)>>),
   (* 11 *) Node("Identifier", 3, 0, "eval", "",
               <<>>),
   (* 12 *) Node("Identifier", 3, 5, "y", "",
               <<>>),
   (* 13 *) Node("ExpressionStatement", 3, 9, "", "",
               <<ObjectLink("expression", 14)>>),
   (* 14 *) Node("CallExpression", 3, 9, "", "",
               <<ObjectLink("callee", 15), ArrayLink("arguments", <<16>>)>>),
   (* 15 *) Node("Identifier", 3, 9, "eval", "",
               <<>>),
   (* 16 *) Node("Identifier", 3, 14, "z", "",
               <<>>),
   (* 17 *) Node("ExpressionStatement", 4, 0, "", "",
               <<ObjectLink("expression", 18)>>),
   (* 18 *) Node("CallExpression", 4, 0, "", "",
               <<ObjectLink("callee", 19), ArrayLink("arguments", <<>>)>>),
   (* 19 *) Node("MemberExpression", 4, 0, "", "",
               <<ObjectLink("object", 20), ObjectLink("property", 21)>>),
   (* 20 *) Node("Identifier", 4, 0, "window", "",
               <<>>),
   (* 21 *) Node("Identifier", 4, 7, "eval", "",
               <<>>),
   (* 22 *) Node("ExpressionStatement", 5, 0, "", "",
               <<ObjectLink("expression", 23)>>),
   (* 23 *) Node("AssignmentExpression", 5, 0, "", "=",
               <<ObjectLink("left", 24), ObjectLink("right", 27)>>),
   (* 24 *) Node("MemberExpression", 5, 0, "", "",
               <<ObjectLink("object", 25), ObjectLink("property", 26)>>),
   (* 25 *) Node("Identifier", 5, 0, "el", "",
               <<>>),
   (* 26 *) Node("Identifier", 5, 3, "innerHTML", "",
               <<>>),
   (* 27 *) Node("Identifier", 5, 15, "s", "",
               <<>>)
  >>

\* function f() {                       line 1
\*   if (a = b) {                       line 2
\*     return;                          line 3
\*     g();                             line 4
\*   }
\*   return a && (b ?? c);              line 6
\* }
\* class K {}                           line 8
\* /re/                                 line 9  (its `regex' property is an untyped object)
\* () => a ? b : c                      line 10
\* with one entry in the `errors' array a tolerant parse attaches to the Program
BugScript ==
  <<
   (*  1 *) Node("Program", 1, 0, "", "",
               <<ArrayLink("body", <<2, 20, 23, 26>>), ArrayLink("errors", <<32>>)>>),
   (*  2 *) Node("FunctionDeclaration", 1, 0, "", "",
               <<ObjectLink("id", 3), ArrayLink("params", <<>>), ObjectLink("body", 4)>>),
   (*  3 *) Node("Identifier", 1, 9, "f", "",
               <<>>),
   (*  4 *) Node("BlockStatement", 1, 13, "", "",
               <<ArrayLink("body", <<5, 14>>)>>),
   (*  5 *) Node("IfStatement", 2, 2, "", "",
               <<ObjectLink("test", 6), ObjectLink("consequent", 9), ObjectLink("alternate", Null)>>),
   (*  6 *) Node("AssignmentExpression", 2, 6, "", "=",
               <<ObjectLink("left", 7), ObjectLink("right", 8)>>),
   (*  7 *) Node("Identifier", 2, 6, "a", "",
               <<>>),
   (*  8 *) Node("Identifier", 2, 10, "b", "",
               <<>>),
   (*  9 *) Node("BlockStatement", 2, 13, "", "",
               <<ArrayLink("body", <<10, 11>>)>>),
   (* 10 *) Node("ReturnStatement", 3, 4, "", "",
               <<ObjectLink("argument", Null)>>),
   (* 11 *) Node("ExpressionStatement", 4, 4, "", "",
               <<ObjectLink("expression", 12)>>),
   (* 12 *) Node("CallExpression", 4, 4, "", "",
               <<ObjectLink("callee", 13), ArrayLink("arguments", <<>>)>>),
   (* 13 *) Node("Identifier", 4, 4, "g", "",
               <<>>),
   (* 14 *) Node("ReturnStatement", 6, 2, "", "",
               <<ObjectLink("argument", 15)>>),
   (* 15 *) Node("LogicalExpression", 6, 9, "", "&&",
               <<ObjectLink("left", 16), ObjectLink("right", 17)>>),
   (* 16 *) Node("Identifier", 6, 9, "a", "",
               <<>>),
   (* 17 *) Node("LogicalExpression", 6, 14, "", "??",
               <<ObjectLink("left", 18), ObjectLink("right", 19)>>),
   (* 18 *) Node("Identifier", 6, 14, "b", "",
               <<>>),
   (* 19 *) Node("Identifier", 6, 19, "c", "",
               <<>>),
   (* 20 *) Node("ClassDeclaration", 8, 0, "", "",
               <<ObjectLink("id", 21), ObjectLink("superClass", Null), ObjectLink("body", 22)>>),
   (* 21 *) Node("Identifier", 8, 6, "K", "",
               <<>>),
   (* 22 *) Node("ClassBody", 8, 8, "", "",
               <<ArrayLink("body", <<>>)>>),
   (* 23 *) Node("ExpressionStatement", 9, 0, "", "",
               <<ObjectLink("expression", 24)>>),
   (* 24 *) Node("Literal", 9, 0, "", "",
               <<ObjectLink("regex", 25)>>),
   (* 25 *) Node("", 0, 0, "", "",
               <<>>),
   (* 26 *) Node("ExpressionStatement", 10, 0, "", "",
               <<ObjectLink("expression", 27)>>),
   (* 27 *) Node("ArrowFunctionExpression", 10, 0, "", "",
               <<ArrayLink("params", <<>>), ObjectLink("body", 28)>>),
   (* 28 *) Node("ConditionalExpression", 10, 6, "", "",
               <<ObjectLink("test", 29), ObjectLink("consequent", 30), ObjectLink("alternate", 31)>>),
   (* 29 *) Node("Identifier", 10, 6, "a", "",
               <<>>),
   (* 30 *) Node("Identifier", 10, 10, "b", "",
               <<>>),
   (* 31 *) Node("Identifier", 10, 14, "c", "",
               <<>>),
   (* 32 *) Node("", 0, 0, "", "",
               <<>>)
  >>

\* for (;;) { for (;;) {} while (a) {} }          lines 1-3: two sibling loops in one
\* while (a) { for (;;) { do {} while (a) } }     lines 5-7: three levels
LoopScript ==
  <<
   (*  1 *) Node("Program", 1, 0, "", "",
               <<ArrayLink("body", <<2, 9>>)>>),
   (*  2 *) Node("ForStatement", 1, 0, "", "",
               <<ObjectLink("init", Null), ObjectLink("test", Null), ObjectLink("update", Null), ObjectLink("body", 3)>>),
   (*  3 *) Node("BlockStatement", 1, 10, "", "",
               <<ArrayLink("body", <<4, 6>>)>>),
   (*  4 *) Node("ForStatement", 2, 0, "", "",
               <<ObjectLink("init", Null), ObjectLink("test", Null), ObjectLink("update", Null), ObjectLink("body", 5)>>),
   (*  5 *) Node("BlockStatement", 2, 10, "", "",
               <<ArrayLink("body", <<>>)>>),
   (*  6 *) Node("WhileStatement", 3, 0, "", "",
               <<ObjectLink("test", 7), ObjectLink("body", 8)>>),
   (*  7 *) Node("Identifier", 3, 7, "a", "",
               <<>>),
   (*  8 *) Node("BlockStatement", 3, 10, "", "",
               <<ArrayLink("body", <<>>)>>),
   (*  9 *) Node("WhileStatement", 5, 0, "", "",
               <<ObjectLink("test", 10), ObjectLink("body", 11)>>),
   (* 10 *) Node("Identifier", 5, 7, "a", "",
               <<>>),
   (* 11 *) Node("BlockStatement", 5, 10, "", "",
               <<ArrayLink("body", <<12>>)>>),
   (* 12 *) Node("ForStatement", 6, 0, "", "",
               <<ObjectLink("init", Null), ObjectLink("test", Null), ObjectLink("update", Null), ObjectLink("body", 13)>>),
   (* 13 *) Node("BlockStatement", 6, 10, "", "",
               <<ArrayLink("body", <<14>>)>>),
   (* 14 *) Node("DoWhileStatement", 7, 0, "", "",
               <<ObjectLink("body", 15), ObjectLink("test", 16)>>),
   (* 15 *) Node("BlockStatement", 7, 10, "", "",
               <<ArrayLink("body", <<>>)>>),
   (* 16 *) Node("Identifier", 7, 7, "a", "",
               <<>>)
  >>

\* function f() { return; g() }           line 1
\* for (;;) for (;;) while (a) ;            line 2: three levels
\* eval(x); eval(y)                         line 3
\* switch (a) { case 1: default: }          line 4
\* try {} catch (e) {}                      line 5
\* a || b                                   line 6
\* if (b = 1) ;                             line 7
\* for (;;) for (k in o) for (v of o) ;     line 8: three levels, two of them for-in / for-of
MixedScript ==
  <<
   (*  1 *) Node("Program", 1, 0, "", "",
               <<ArrayLink("body", <<2, 9, 14, 18, 22, 27, 32, 36, 41>>)>>),
   (*  2 *) Node("FunctionDeclaration", 1, 0, "", "",
               <<ObjectLink("id", 3), ArrayLink("params", <<>>),
                 ObjectLink("body", 4)>>),
   (*  3 *) Node("Identifier", 1, 9, "f", "",
               <<>>),
   (*  4 *) Node("BlockStatement", 1, 13, "", "",
               <<ArrayLink("body", <<5, 6>>)>>),
   (*  5 *) Node("ReturnStatement", 1, 15, "", "",
               <<ObjectLink("argument", Null)>>),
   (*  6 *) Node("ExpressionStatement", 1, 23, "", "",
               <<ObjectLink("expression", 7)>>),
   (*  7 *) Node("CallExpression", 1, 23, "", "",
               <<ObjectLink("callee", 8), ArrayLink("arguments", <<>>)>>),
   (*  8 *) Node("Identifier", 1, 23, "g", "",
               <<>>),
   (*  9 *) Node("ForStatement", 2, 0, "", "",
               <<ObjectLink("init", Null), ObjectLink("test", Null),
                 ObjectLink("update", Null), ObjectLink("body", 10)>>),
   (* 10 *) Node("ForStatement", 2, 9, "", "",
               <<ObjectLink("init", Null), ObjectLink("test", Null),
                 ObjectLink("update", Null), ObjectLink("body", 11)>>),
   (* 11 *) Node("WhileStatement", 2, 18, "", "",
               <<ObjectLink("test", 12), ObjectLink("body", 13)>>),
   (* 12 *) Node("Identifier", 2, 25, "a", "",
               <<>>),
   (* 13 *) Node("EmptyStatement", 2, 28, "", "",
               <<>>),
   (* 14 *) Node("ExpressionStatement", 3, 0, "", "",
               <<ObjectLink("expression", 15)>>),
   (* 15 *) Node("CallExpression", 3, 0, "", "",
               <<ObjectLink("callee", 16), ArrayLink("arguments", <<17>>)>>),
   (* 16 *) Node("Identifier", 3, 0, "eval", "",
               <<>>),
   (* 17 *) Node("Identifier", 3, 5, "x", "",
               <<>>),
   (* 18 *) Node("ExpressionStatement", 3, 9, "", "",
               <<ObjectLink("expression", 19)>>),
   (* 19 *) Node("CallExpression", 3, 9, "", "",
               <<ObjectLink("callee", 20), ArrayLink("arguments", <<21>>)>>),
   (* 20 *) Node("Identifier", 3, 9, "eval", "",
               <<>>),
   (* 21 *) Node("Identifier", 3, 14, "y", "",
               <<>>),
   (* 22 *) Node("SwitchStatement", 4, 0, "", "",
               <<ObjectLink("discriminant", 23),
                 ArrayLink("cases", <<24, 26>>)>>),
   (* 23 *) Node("Identifier", 4, 8, "a", "",
               <<>>),
   (* 24 *) Node("SwitchCase", 4, 13, "", "",
               <<ObjectLink("test", 25), ArrayLink("consequent", <<>>)>>),
   (* 25 *) Node("Literal", 4, 18, "", "",
               <<>>),
   (* 26 *) Node("SwitchCase", 4, 21, "", "",
               <<ObjectLink("test", Null), ArrayLink("consequent", <<>>)>>),
   (* 27 *) Node("TryStatement", 5, 0, "", "",
               <<ObjectLink("block", 28), ObjectLink("handler", 29),
                 ObjectLink("finalizer", Null)>>),
   (* 28 *) Node("BlockStatement", 5, 4, "", "",
               <<ArrayLink("body", <<>>)>>),
   (* 29 *) Node("CatchClause", 5, 7, "", "",
               <<ObjectLink("param", 30), ObjectLink("body", 31)>>),
   (* 30 *) Node("Identifier", 5, 14, "e", "",
               <<>>),
   (* 31 *) Node("BlockStatement", 5, 17, "", "",
               <<ArrayLink("body", <<>>)>>),
   (* 32 *) Node("ExpressionStatement", 6, 0, "", "",
               <<ObjectLink("expression", 33)>>),
   (* 33 *) Node("LogicalExpression", 6, 0, "", "||",
               <<ObjectLink("left", 34), ObjectLink("right", 35)>>),
   (* 34 *) Node("Identifier", 6, 0, "a", "",
               <<>>),
   (* 35 *) Node("Identifier", 6, 5, "b", "",
               <<>>),
   (* 36 *) Node("IfStatement", 7, 0, "", "",
               <<ObjectLink("test", 37), ObjectLink("consequent", 40),
                 ObjectLink("alternate", Null)>>),
   (* 37 *) Node("AssignmentExpression", 7, 4, "", "=",
               <<ObjectLink("left", 38), ObjectLink("right", 39)>>),
   (* 38 *) Node("Identifier", 7, 4, "b", "",
               <<>>),
   (* 39 *) Node("Literal", 7, 8, "", "",
               <<>>),
   (* 40 *) Node("EmptyStatement", 7, 11, "", "",
               <<>>),
   (* 41 *) Node("ForStatement", 8, 0, "", "",
               <<ObjectLink("init", Null), ObjectLink("test", Null),
                 ObjectLink("update", Null), ObjectLink("body", 42)>>),
   (* 42 *) Node("ForInStatement", 8, 9, "", "",
               <<ObjectLink("left", 43), ObjectLink("right", 44),
                 ObjectLink("body", 45)>>),
   (* 43 *) Node("Identifier", 8, 14, "k", "",
               <<>>),
   (* 44 *) Node("Identifier", 8, 19, "o", "",
               <<>>),
   (* 45 *) Node("ForOfStatement", 8, 22, "", "",
               <<ObjectLink("left", 46), ObjectLink("right", 47),
                 ObjectLink("body", 48)>>),
   (* 46 *) Node("Identifier", 8, 27, "v", "",
               <<>>),
   (* 47 *) Node("Identifier", 8, 32, "o", "",
               <<>>),
   (* 48 *) Node("EmptyStatement", 8, 35, "", "",
               <<>>)
  >>

---------------------------------------------------------------------------
(* Paths.  A path is the sequence of the pieces its string is made of:     *)
(* the separator "/", the dot ".", and runs of other characters, so that   *)
(* <<"lib", "/", "b", ".", "TS">> is lib/b.TS.                             *)

\* The index of the last piece of p equal to c, 0 when there is none.
LastIndexOf(p, c) ==
  IF \E i \in 1..Len(p) : p[i] = c
  THEN CHOOSE i \in 1..Len(p) : p[i] = c /\ \A j \in (i + 1)..Len(p) : p[j] # c
  ELSE 0

\* path.basename
BaseName(p) == SubSeq(p, LastIndexOf(p, "/") + 1, Len(p))

\* path.extname: from the last dot of the base name on; empty when the base
\* name has no dot, starts with its only dot, or is "..".
ExtName(p) ==
  LET base == BaseName(p)
      dot == LastIndexOf(base, ".")
  IN  IF dot <= 1 \/ base = <<".", ".">> THEN <<>>
      ELSE SubSeq(base, dot, Len(base))

\* String.prototype.toLowerCase on one piece.
LowerPiece(c) ==
  CASE c = "JS" -> "js"
    [] c = "TS" -> "ts"
    [] c = "D" -> "d"
    [] c = "README" -> "readme"
    [] c = "Js" -> "js"
    [] c = "PY" -> "py"
    [] c = "HPP" -> "hpp"
    [] c = "H" -> "h"
    [] c = "MD" -> "md"
    [] OTHER -> c

ToLowerCase(p) == [i \in 1..Len(p) |-> LowerPiece(p[i])]

\* String.prototype.includes: pattern is a contiguous part of p.
Includes(p, pattern) ==
  \E i \in 1..(Len(p) + 1) :
    /\ i + Len(pattern) - 1 <= Len(p)
    /\ SubSeq(p, i, i + Len(pattern) - 1) = pattern

\* supportedLanguages, in the order Object.entries lists it.
supportedLanguages ==
  << [language |-> "javascript",
      extensions |-> {<<".", "js">>, <<".", "jsx">>, <<".", "mjs">>}],
     [language |-> "typescript", extensions |-> {<<".", "ts">>, <<".", "tsx">>}],
     [language |-> "python", extensions |-> {<<".", "py">>}],
     [language |-> "java", extensions |-> {<<".", "java">>}],
     [language |-> "go", extensions |-> {<<".", "go">>}],
     [language |-> "rust", extensions |-> {<<".", "rs">>}],
     [language |-> "cpp",
      extensions |-> {<<".", "cpp">>, <<".", "cc">>, <<".", "cxx">>,
                      <<".", "hpp">>, <<".", "h">>}] >>

\* getLanguageFromFile's null.
NoLanguage == "null"

getLanguageFromFile(filePath) ==
  LET ext == ToLowerCase(ExtName(filePath))
      hits == {i \in 1..Len(supportedLanguages) :
                 ext \in supportedLanguages[i].extensions}
  IN  IF hits = {} THEN NoLanguage
      ELSE supportedLanguages[CHOOSE i \in hits : \A j \in hits : i <= j].language

---------------------------------------------------------------------------
(* The Analysis document (models/Analysis.js) *)

\* An unset Date or Number (undefined).
NoTime == -1
NoScore == -1

\* What new Analysis({... status: 'pending' ...}) holds once saved.  The
\* fields startTime, endTime and duration are the paths timing.*; summary
\* is results.summary and issues is results.issues.
NewAnalysis(configuration) ==
  [status |-> "pending", progress |-> 0,
   startTime |-> NoTime, endTime |-> NoTime, duration |-> NoTime,
   scope |-> [files |-> <<>>, languages |-> <<>>, totalFiles |-> 0,
              totalLines |-> 0],
   configuration |-> configuration,
   summary |-> [totalIssues |-> 0, criticalIssues |-> 0, highIssues |-> 0,
                mediumIssues |-> 0, lowIssues |-> 0, filesAnalyzed |-> 0,
                linesAnalyzed |-> 0, score |-> NoScore],
   issues |-> <<>>, logs |-> <<>>, error |-> ""]

\* The summary counter `${severity}Issues'.
SeverityField(severity) ==
  CASE severity = "critical" -> "criticalIssues"
    [] severity = "high" -> "highIssues"
    [] severity = "medium" -> "mediumIssues"
    [] severity = "low" -> "lowIssues"
    [] OTHER -> "undefined"

\* The sub-document the issues array makes of a pushed issue: the schema
\* default status 'open' is set.
CastIssue(issue) ==
  [id |-> issue.id, type |-> issue.type, severity |-> issue.severity,
   title |-> issue.title, description |-> issue.description,
   file |-> issue.file, rule |-> issue.rule, status |-> "open"]

\* addIssue without the count of all issues.
addIssueUncounted(doc, issue) ==
  LET field == SeverityField(issue.severity)
  IN  [doc EXCEPT !.issues = Append(@, CastIssue(issue)),
                  !.summary[field] = @ + 1]

addIssue(doc, issue) ==
  LET field == SeverityField(issue.severity)
      counted == IF field \in DOMAIN doc.summary
                 THEN [doc.summary EXCEPT ![field] = @ + 1]
                 ELSE doc.summary
  IN  [doc EXCEPT !.issues = Append(@, CastIssue(issue)),
                  !.summary = [counted EXCEPT !.totalIssues = @ + 1]]

RECURSIVE addIssues(_, _)
\* issues.forEach(issue => analysis.addIssue(issue))
addIssues(doc, issues) ==
  IF issues = <<>> THEN doc
  ELSE addIssues(addIssue(doc, Head(issues)), Tail(issues))

CriticalWeight == 10
HighWeight == 5
MediumWeight == 2
LowWeight == 1

\* calculateScore: Math.round(max(0, min(100, 100 - w / max(1, lines * 0.1) * 100))),
\* that is 100 - 1000 w / max(10, lines), rounded half up and cut at 0.
calculateScore(doc) ==
  LET sum == doc.summary
      w == sum.criticalIssues * CriticalWeight + sum.highIssues * HighWeight
           + sum.mediumIssues * MediumWeight + sum.lowIssues * LowWeight
      m == Max(10, sum.linesAnalyzed)
      score == IF sum.totalIssues = 0 THEN 100
               ELSE IF 10 * w >= m THEN 0
               ELSE (201 * m - 2000 * w) \div (2 * m)
  IN  [doc EXCEPT !.summary.score = score]

\* document.save(): the store takes the modified paths of the document.
Save(stored, doc, paths) ==
  LET Path(f) == IF f \in paths THEN doc[f] ELSE stored[f]
  IN  [status |-> Path("status"), progress |-> Path("progress"),
       startTime |-> Path("startTime"), endTime |-> Path("endTime"),
       duration |-> Path("duration"), scope |-> Path("scope"),
       configuration |-> Path("configuration"), summary |-> Path("summary"),
       issues |-> Path("issues"), logs |-> Path("logs"), error |-> Path("error")]

\* endTime - startTime; NaN (kept as NoTime) when the start is not set.
Duration(startTime, endTime) ==
  IF startTime = NoTime THEN NoTime ELSE endTime - startTime

---------------------------------------------------------------------------
(* getSourceFiles.  The files of the working copy are given by their paths *)
(* relative to repositoryPath, in directory order; a directory is a prefix *)
(* of one of them.                                                         *)

RECURSIVE Segments(_)
\* p split at "/"
Segments(p) ==
  LET cut == IF \E i \in 1..Len(p) : p[i] = "/"
             THEN CHOOSE i \in 1..Len(p) : p[i] = "/" /\ \A j \in 1..(i - 1) : p[j] # "/"
             ELSE 0
  IN  IF cut = 0 THEN <<p>>
      ELSE <<SubSeq(p, 1, cut - 1)>> \o Segments(SubSeq(p, cut + 1, Len(p)))

RECURSIVE Join(_)
\* path.join of segments
Join(segs) ==
  IF Len(segs) = 0 THEN <<>>
  ELSE IF Len(segs) = 1 THEN segs[1]
  ELSE segs[1] \o <<"/">> \o Join(Tail(segs))

IsPrefix(a, b) == Len(a) <= Len(b) /\ SubSeq(b, 1, Len(a)) = a

RECURSIVE Distinct(_)
\* The elements of s in order of first occurrence.
Distinct(s) ==
  IF s = <<>> THEN <<>>
  ELSE LET rest == Distinct(SubSeq(s, 1, Len(s) - 1))
           last == s[Len(s)]
       IN  IF \E i \in 1..Len(rest) : rest[i] = last THEN rest
           ELSE Append(rest, last)

\* fs.readdir(dir): the entries of directory dir (a sequence of segments).
ReadDir(paths, dir) ==
  LET under == SelectSeq(paths, LAMBDA p : /\ IsPrefix(dir, Segments(p))
                                           /\ Len(Segments(p)) > Len(dir))
  IN  Distinct([i \in 1..Len(under) |-> Segments(under[i])[Len(dir) + 1]])

\* entry.isDirectory()
IsDirectory(paths, segs) ==
  \E i \in 1..Len(paths) :
    IsPrefix(segs, Segments(paths[i])) /\ Len(Segments(paths[i])) > Len(segs)

DefaultExcludePaths == << <<"node_modules">>, <<".", "git">>, <<"dist">>, <<"build">> >>

\* options[name] || fallback
Option(options, name, fallback) ==
  IF name \in DOMAIN options THEN options[name] ELSE fallback

Some(patterns, p) == \E i \in 1..Len(patterns) : Includes(p, patterns[i])

RECURSIVE scanDirectory(_, _, _, _)
RECURSIVE ScanEntries(_, _, _, _, _)

scanDirectory(paths, excludePaths, includePaths, dir) ==
  ScanEntries(paths, excludePaths, includePaths, dir, ReadDir(paths, dir))

\* The loop of scanDirectory over the entries still to look at.
ScanEntries(paths, excludePaths, includePaths, dir, entries) ==
  IF entries = <<>> THEN <<>>
  ELSE LET segs == Append(dir, Head(entries))
           relativePath == Join(segs)
           here ==
             IF Some(excludePaths, relativePath) THEN <<>>
             ELSE IF Len(includePaths) > 0 /\ ~Some(includePaths, relativePath)
               THEN <<>>
             ELSE IF IsDirectory(paths, segs)
               THEN scanDirectory(paths, excludePaths, includePaths, segs)
             ELSE <<relativePath>>
       IN  here \o ScanEntries(paths, excludePaths, includePaths, dir, Tail(entries))

getSourceFiles(paths, options) ==
  scanDirectory(paths, Option(options, "excludePaths", DefaultExcludePaths),
                Option(options, "includePaths", <<>>), <<>>)

---------------------------------------------------------------------------
(* Inputs *)

MaxIfs == 21
MaxNest == 3
MaxClock == 1

Trees ==
  {IfChain(n) : n \in 0..MaxIfs} \cup {NestedFor(d) : d \in 0..MaxNest}
  \cup {ArrayLiteral(MaxArrayElements), ArrayLiteral(MaxArrayElements + 1)}
  \cup {EvalScript, BugScript, LoopScript, MixedScript}

\* The engine functions whose walk may exhaust the stack on a tree.
Walkers ==
  {"calculateComplexity", "analyzeSecurity", "analyzePerformance", "analyzeBugs",
   "countFunctions", "countClasses"}

\* The trees on which a walk is taken to exhaust the stack.
DeepTrees == {IfChain(MaxIfs), NestedFor(MaxNest), EvalScript, BugScript}

Syntaxes ==
  {Parsed(Ast(h, "none")) : h \in Trees}
  \cup {Parsed(Ast(h, r)) : h \in DeepTrees, r \in Walkers}
  \cup {Rejected("Unexpected token")}

\* "" (one line) and "x\ny\n" (three lines, as split counts them).
CharSeqs == {<<>>, <<"x", "\n", "y", "\n">>}

Contents == {Content(c, x) : c \in CharSeqs, x \in Syntaxes}

Languages == {supportedLanguages[i].language : i \in 1..Len(supportedLanguages)}

FilePaths == {<<"a", ".", "js">>, <<"lib", "/", "b", ".", "TS">>, <<"D", ".", "java">>}

---------------------------------------------------------------------------
(* The repositories a run is given *)

MaxFiles == 2
MaxRequests == 1

\* A text of n lines.
Lines(n) == [i \in 1..(2 * (n - 1)) |-> IF i % 2 = 1 THEN "x" ELSE "\n"]

\* The paths a repository may hold, in the order a listing gives them.
RunPaths ==
  << <<"README", ".", "md">>, <<"a", ".", "js">>,
     <<"bad", ".", "js">>, <<"big", ".", "mjs">>, <<"gone", ".", "js">>,
     <<"lib", "/", "b", ".", "TS">> >>

\* Reading the file at path fails (fs.readFile rejects, getFileContent
\* throws): one file is gone.
ReadFails(path) == path = <<"gone", ".", "js">>

ReadError(path) == "Not Found"

\* The content read at each other path: two scripts with findings, a script
\* with a large array literal, a text file, and a script the parser rejects.
ContentAt(path) ==
  CASE path = <<"a", ".", "js">> ->
         Content(Lines(5), Parsed(Ast(EvalScript, "none")))
    [] path = <<"lib", "/", "b", ".", "TS">> ->
         Content(Lines(12), Parsed(Ast(BugScript, "none")))
    [] path = <<"big", ".", "mjs">> ->
         Content(Lines(1), Parsed(Ast(ArrayLiteral(MaxArrayElements + 1), "none")))
    [] path = <<"README", ".", "md">> ->
         Content(Lines(3), Rejected("Unexpected token"))
    [] OTHER -> Content(Lines(2), Rejected("Unexpected token"))

\* The file lists of a repository: up to MaxFiles of the paths.
FileLists ==
  {SelectSeq(RunPaths, LAMBDA p : p \in chosen) :
     chosen \in {c \in SUBSET {RunPaths[i] : i \in 1..Len(RunPaths)} :
                   Cardinality(c) <= MaxFiles}}

\* analysisSettings.rules of a repository, as the schema defaults it.
DefaultRuleSettings ==
  [complexity |-> TRUE, security |-> TRUE, performance |-> TRUE,
   style |-> FALSE, bugs |-> TRUE, maintainability |-> TRUE]

\* The rule settings of a repository that has every analysis switched off.
NoRuleSettings ==
  [complexity |-> FALSE, security |-> FALSE, performance |-> FALSE,
   style |-> FALSE, bugs |-> FALSE, maintainability |-> FALSE]

\* The options of a run: none, an exclude pattern, an include pattern, rule
\* settings.
OptionSets ==
  {<<>>, [excludePaths |-> << <<"lib">> >>], [includePaths |-> << <<".", "js">> >>],
   [rules |-> NoRuleSettings]}

Users == {"owner", "other"}

---------------------------------------------------------------------------
(* State *)

VARIABLES
  pc,         \* where the entry point under analysis stands
  call,       \* the arguments of the last analyzeFile call
  ret,        \* what the last call (or loop iteration) returned or threw
  mode,       \* "file", "repository" (analyzeRepository) or "job" (startAnalysis)
  tree,       \* the files of the repository
  options,    \* the options / configuration of the run
  clock,      \* Date.now()
  files,      \* the files the loop goes over
  idx,        \* how many of them the loop has gone past
  results,    \* analyzeRepository's results
  analysis,   \* startAnalysis's Analysis document
  modified,   \* the modified paths of that document
  locals,     \* startAnalysis's totalLines and processedFiles
  db,         \* the stored Analysis document
  statistics, \* repository.statistics
  route,      \* the cancel route: its position, document, user and response
  cancelMark, \* where the run stood when a cancellation was stored
  walk,       \* a tree under traverseAST / findNestedLoops: heap, call stack, log
  engine      \* the engine's own fields: this.supportedLanguages and this.rules

runVars ==
  <<mode, tree, options, clock, files, idx, results, analysis, modified,
    locals, db, statistics, route, cancelMark, walk, engine>>

vars == <<pc, call, ret, runVars>>

NotReturned == [threw |-> FALSE, pending |-> TRUE]

NotCalled == [pending |-> TRUE]

NewResults ==
  [summary |-> [totalFiles |-> 0, analyzedFiles |-> 0, totalIssues |-> 0,
                criticalIssues |-> 0, highIssues |-> 0, mediumIssues |-> 0,
                lowIssues |-> 0, totalLines |-> 0],
   files |-> <<>>, issues |-> <<>>]

NewStatistics ==
  [totalAnalyses |-> 0, lastAnalysis |-> NoTime, totalIssues |-> 0,
   avgAnalysisTime |-> 0, linesAnalyzed |-> 0]

\* configuration: {...repository.analysisSettings, ...configuration}
Configuration(opts) ==
  [excludePaths |-> Option(opts, "excludePaths", <<>>),
   includePaths |-> Option(opts, "includePaths", <<>>),
   rules |-> Option(opts, "rules", DefaultRuleSettings)]

\* The fields of a loaded document that the cancel route reads.
Loaded(doc) == [status |-> doc.status, startTime |-> doc.startTime]

IdleRoute(requests) ==
  [pc |-> "idle", doc |-> Loaded(NewAnalysis(Configuration(<<>>))), user |-> "",
   response |-> 0, requests |-> requests]

NoMark == [set |-> FALSE, pc |-> "", idx |-> 0, filesAnalyzed |-> 0, issues |-> 0]

\* No depth returned yet.
NoDepth == -1

\* A tree as the front-end returned it, before any walk: no call is under
\* way, nothing has been handed to a callback.
NewWalk(t) ==
  [tree |-> t, heap |-> t, fn |-> "", stack |-> <<>>, log |-> <<>>,
   steps |-> 0, walks |-> 0, nests |-> 0, result |-> NoDepth]

NoWalk == NewWalk(<<>>)

\* The engine as its constructor leaves it.
NewEngine == [supportedLanguages |-> supportedLanguages, rules |-> rules]

RunInit(m, t, o) ==
  /\ mode = m
  /\ engine = NewEngine
  /\ tree = t
  /\ options = o
  /\ clock = 0
  /\ files = <<>>
  /\ idx = 0
  /\ results = NewResults
  /\ analysis = NewAnalysis(Configuration(o))
  /\ modified = {}
  /\ locals = [totalLines |-> 0, processedFiles |-> 0]
  /\ db = NewAnalysis(Configuration(o))
  /\ statistics = NewStatistics
  /\ route = IdleRoute(0)
  /\ cancelMark = NoMark

---------------------------------------------------------------------------
(* One call of analyzeFile on arbitrary arguments *)

FileInit ==
  /\ pc = "ready"
  /\ call \in [filePath : FilePaths, content : Contents,
               language : Languages \cup {NoLanguage}, now : 0..MaxClock]
  /\ ret = NotReturned
  /\ RunInit("file", <<>>, <<>>)
  /\ walk = NoWalk

\* A call that switches the style rule on in the rule set.
FileCallTogglingStyle ==
  /\ pc = "ready"
  /\ ret' = analyzeFile(call.filePath, call.content, call.language, call.now)
  /\ pc' = "returned"
  /\ engine' = [engine EXCEPT !.rules.style.enabled = TRUE]
  /\ UNCHANGED <<call, mode, tree, options, clock, files, idx, results, analysis,
                 modified, locals, db, statistics, route, cancelMark, walk>>

FileCall ==
  /\ pc = "ready"
  /\ ret' = analyzeFile(call.filePath, call.content, call.language, call.now)
  /\ pc' = "returned"
  /\ UNCHANGED <<call, runVars>>

\* A second call with the same arguments, in the same millisecond or later.
FileCallAgain ==
  /\ pc = "returned"
  /\ \E now \in {t \in 0..MaxClock : t >= call.now} :
       /\ call' = [call EXCEPT !.now = now]
       /\ ret' = analyzeFile(call.filePath, call.content, call.language, now)
  /\ pc' = "again"
  /\ UNCHANGED runVars

FileNext == FileCall \/ FileCallAgain

SpecFile == FileInit /\ [][FileNext]_vars

---------------------------------------------------------------------------
(* One call of getLanguageFromFile on an arbitrary path *)

\* The paths resolved: in the working directory, in a directory and in a
\* directory whose name has a dot; plain names, names with a dot and dot
\* files; every extension of the table, some of them in capitals, and
\* extensions and endings the table does not hold.
ResolvePaths ==
  LET dirs == {<<>>, <<"src", "/">>, <<"v1", ".", "js", "/">>}
      names == {<<"x">>, <<"x", ".", "d">>, <<>>}
      known == UNION {supportedLanguages[i].extensions :
                        i \in 1..Len(supportedLanguages)}
      others == {<<".", "JS">>, <<".", "Js">>, <<".", "PY">>, <<".", "HPP">>,
                 <<".", "H">>, <<".", "MD">>, <<".", "md">>, <<".", "txt">>,
                 <<".", "json">>, <<".", "c">>, <<".">>, <<>>}
  IN  {d \o f : d \in dirs,
                 f \in {n \o e : n \in names, e \in known \cup others} \ {<<>>}}

ResolveInit ==
  /\ pc = "resolve"
  /\ call \in {[filePath |-> p] : p \in ResolvePaths}
  /\ ret = NotReturned
  /\ RunInit("resolve", <<>>, <<>>)
  /\ walk = NoWalk

\* getLanguageFromFile(filePath)
Resolve ==
  /\ pc = "resolve"
  /\ ret' = Returned(getLanguageFromFile(call.filePath))
  /\ pc' = "resolved"
  /\ UNCHANGED <<call, runVars>>

SpecResolve == ResolveInit /\ [][Resolve]_vars

---------------------------------------------------------------------------
(* One call of getSourceFiles on an arbitrary directory and options *)

\* The files a scanned directory may hold, in the order readdir lists them.
ScanPaths ==
  << <<"README", ".", "md">>, <<"a", ".", "js">>, <<"lib", "/", "b", ".", "TS">>,
     <<"lib", "/", "c", ".", "js">>, <<"node_modules", "/", "m", ".", "js">>,
     <<"src", "/", "lib", "/", "d", ".", "js">> >>

ScanTrees ==
  {SelectSeq(ScanPaths, LAMBDA p : p \in chosen) :
     chosen \in SUBSET {ScanPaths[i] : i \in 1..Len(ScanPaths)}}

\* The options of a scan: none, no exclude pattern at all, an exclude
\* pattern, an include pattern that directory names match or do not match,
\* and both kinds together.
ScanOptions ==
  {<<>>, [excludePaths |-> <<>>], [excludePaths |-> << <<"lib">> >>],
   [includePaths |-> << <<".", "js">> >>], [includePaths |-> << <<".", "TS">> >>],
   [includePaths |-> << <<"lib">> >>],
   [excludePaths |-> << <<"src">> >>, includePaths |-> << <<"lib">>, <<"a">> >>]}

ScanInit ==
  /\ pc = "scan"
  /\ call = NotCalled
  /\ ret = NotReturned
  /\ \E t \in ScanTrees, o \in ScanOptions : RunInit("scan", t, o)
  /\ walk = NoWalk

\* const files = await this.getSourceFiles(repositoryPath, options)
Scan ==
  /\ pc = "scan"
  /\ files' = getSourceFiles(tree, options)
  /\ pc' = "scanned"
  /\ UNCHANGED <<call, ret, mode, engine, walk, tree, options, clock, idx, results,
                 analysis, modified, locals, db, statistics, route, cancelMark>>

SpecScan == ScanInit /\ [][Scan]_vars

---------------------------------------------------------------------------
(* traverseAST and findNestedLoops, call by call.  The recursion is kept   *)
(* as a stack of frames, one per call under way: the node of the call, the *)
(* position of its for-in loop (key k, element j of an array) and, for     *)
(* findNestedLoops, depth and maxDepth.  node.parent = parent is written   *)
(* into the heap, so a later walk meets the key `parent' in its for-in.    *)

MaxWalks == 2
MaxNestCalls == 1

\* [, x]: an array literal with a hole (a null element).
SparseScript ==
  <<
   (*  1 *) Node("Program", 1, 0, "", "",
               <<ArrayLink("body", <<2>>)>>),
   (*  2 *) Node("ExpressionStatement", 1, 0, "", "",
               <<ObjectLink("expression", 3)>>),
   (*  3 *) Node("ArrayExpression", 1, 0, "", "",
               <<ArrayLink("elements", <<Null, 4>>)>>),
   (*  4 *) Node("Identifier", 1, 3, "x", "",
               <<>>)
  >>

\* The trees walked.
WalkTrees ==
  {IfChain(n) : n \in 0..2} \cup {NestedFor(d) : d \in 0..MaxNest}
  \cup {EvalScript, BugScript, LoopScript, SparseScript, MixedScript}

\* node.parent = parent: the key is added after the others, or keeps its
\* place when the node has it already.
WriteParent(heap, node, parent) ==
  LET links == heap[node].links
      written ==
        IF \E k \in 1..Len(links) : links[k].key = "parent"
        THEN [k \in 1..Len(links) |->
                IF links[k].key = "parent" THEN ObjectLink("parent", parent)
                ELSE links[k]]
        ELSE Append(links, ObjectLink("parent", parent))
  IN  [heap EXCEPT ![node].links = written]

\* IsChildKey with the back-reference taken for a child like any other key.
IsChildKeyAny(link) == TRUE

\* key !== 'parent' (the other conditions of the line are on the value).
IsChildKey(link) == link.key # "parent"

Frame(node, depth, maxDepth) ==
  [node |-> node, k |-> 1, j |-> 1, depth |-> depth, maxDepth |-> maxDepth]

\* The start of a call from outside: the log and the step count are new.
Begin(w, fn) ==
  [w EXCEPT !.fn = fn, !.log = <<>>, !.steps = 0, !.result = NoDepth]

\* Enter with the parent of every call taken to be null.
EnterOrphan(w, node, parent, depth) ==
  IF w.fn = "traverseAST"
  THEN [w EXCEPT !.heap = WriteParent(@, node, Null),
                 !.log = Append(@, [node |-> node, parent |-> Null]),
                 !.stack = Append(@, Frame(node, 0, 0)),
                 !.steps = @ + 1]
  ELSE LET d == IF w.heap[node].type \in LoopTypes THEN depth + 1 ELSE depth
       IN  [w EXCEPT !.log = Append(@, [node |-> node, parent |-> Null]),
                     !.stack = Append(@, Frame(node, d, Max(depth, d))),
                     !.steps = @ + 1]

\* The entry of a call on node: traverseAST writes node.parent and hands the
\* node to the callback; findNestedLoops counts the node when it is a loop.
\* (traverseAST's own guard !node never holds: the root is a tree and the
\* callers test each child before the call.)
Enter(w, node, parent, depth) ==
  IF w.fn = "traverseAST"
  THEN [w EXCEPT !.heap = WriteParent(@, node, parent),
                 !.log = Append(@, [node |-> node, parent |-> parent]),
                 !.stack = Append(@, Frame(node, 0, 0)),
                 !.steps = @ + 1]
  ELSE LET d == IF w.heap[node].type \in LoopTypes THEN depth + 1 ELSE depth
       IN  [w EXCEPT !.log = Append(@, [node |-> node, parent |-> parent]),
                     !.stack = Append(@, Frame(node, d, Max(depth, d))),
                     !.steps = @ + 1]

\* The call under way and the keys of its node.
Top == walk.stack[Len(walk.stack)]

TopLinks == walk.heap[Top.node].links

\* What the for-in loop of the call under way meets at its position: the end
\* of the keys, a child to call on, or a value to pass over (the key parent,
\* null, an object without type, a hole, the end of an array).
Current ==
  IF Top.k > Len(TopLinks) THEN [kind |-> "end", ref |-> Null]
  ELSE LET l == TopLinks[Top.k]
       IN  IF ~IsChildKey(l) THEN [kind |-> "skip", ref |-> Null]
           ELSE IF l.isArray
             THEN IF Top.j > Len(l.refs) THEN [kind |-> "skip", ref |-> Null]
                  ELSE IF l.refs[Top.j] = Null THEN [kind |-> "skip", ref |-> Null]
                  ELSE [kind |-> "child", ref |-> l.refs[Top.j]]
           ELSE IF l.refs[1] # Null /\ walk.heap[l.refs[1]].type # ""
             THEN [kind |-> "child", ref |-> l.refs[1]]
           ELSE [kind |-> "skip", ref |-> Null]

\* The frame of the call under way, moved past its position: to the next
\* element of the array, or to the next key.
Advanced ==
  LET inArray == /\ Top.k <= Len(TopLinks)
                 /\ IsChildKey(TopLinks[Top.k])
                 /\ TopLinks[Top.k].isArray
                 /\ Top.j <= Len(TopLinks[Top.k].refs)
  IN  IF inArray THEN [Top EXCEPT !.j = @ + 1]
      ELSE [Top EXCEPT !.k = @ + 1, !.j = 1]

\* Everything but the tree under the walk.
notWalk ==
  <<pc, call, ret, mode, engine, tree, options, clock, files, idx, results, analysis,
    modified, locals, db, statistics, route, cancelMark>>

WalkInit ==
  /\ pc = "walk"
  /\ call = NotCalled
  /\ ret = NotReturned
  /\ RunInit("walk", <<>>, <<>>)
  /\ walk \in {NewWalk(t) : t \in WalkTrees}

\* this.traverseAST(ast, callback): one of the walks analyzeFile makes over
\* the tree, one after the other.
WalkStart ==
  /\ mode = "walk"
  /\ walk.stack = <<>>
  /\ walk.walks < MaxWalks
  /\ walk' = Enter(Begin(walk, "traverseAST"), 1, Null, 0)
  /\ UNCHANGED notWalk

\* this.findNestedLoops(node), as the callback of analyzePerformance calls
\* it on a for or while statement.
NestStart ==
  /\ mode = "walk"
  /\ walk.stack = <<>>
  /\ walk.nests < MaxNestCalls
  /\ \E n \in DOMAIN walk.heap :
       /\ walk.heap[n].type \in {"ForStatement", "WhileStatement"}
       /\ walk' = Enter(Begin(walk, "findNestedLoops"), n, Null, 0)
  /\ UNCHANGED notWalk

\* The for-in loop passes over a key or an element it makes no call on.
WalkSkip ==
  /\ mode = "walk"
  /\ walk.stack # <<>>
  /\ Current.kind = "skip"
  /\ walk' = [walk EXCEPT !.stack[Len(walk.stack)] = Advanced, !.steps = @ + 1]
  /\ UNCHANGED notWalk

\* The recursive call on a child: this.traverseAST(child, callback, node),
\* this.findNestedLoops(child, depth).
WalkChild ==
  /\ mode = "walk"
  /\ walk.stack # <<>>
  /\ Current.kind = "child"
  /\ walk' = Enter([walk EXCEPT !.stack[Len(walk.stack)] = Advanced],
                   Current.ref, Top.node, Top.depth)
  /\ UNCHANGED notWalk

\* The for-in loop is over and the call returns: findNestedLoops returns
\* maxDepth, which its caller takes the maximum with.
WalkReturn ==
  /\ mode = "walk"
  /\ walk.stack # <<>>
  /\ Current.kind = "end"
  /\ LET rest == SubSeq(walk.stack, 1, Len(walk.stack) - 1)
         nest == walk.fn = "findNestedLoops"
     IN  IF rest = <<>>
         THEN walk' = [walk EXCEPT !.stack = <<>>,
                                   !.steps = @ + 1,
                                   !.walks = IF nest THEN @ ELSE @ + 1,
                                   !.nests = IF nest THEN @ + 1 ELSE @,
                                   !.result = IF nest THEN Top.maxDepth ELSE @]
         ELSE walk' = [walk EXCEPT
                         !.stack = IF nest
                                   THEN [rest EXCEPT ![Len(rest)].maxDepth =
                                                        Max(@, Top.maxDepth)]
                                   ELSE rest,
                         !.steps = @ + 1]
  /\ UNCHANGED notWalk

WalkNext ==
  \/ WalkStart
  \/ NestStart
  \/ WalkSkip
  \/ WalkChild
  \/ WalkReturn

SpecWalk == WalkInit /\ [][WalkNext]_vars

\* A call runs on without a pause until it returns.
SpecWalkFair == SpecWalk /\ WF_vars(WalkNext)

---------------------------------------------------------------------------
(* analyzeRepository *)

\* analyzeFile(filePath, content, language) at each file of RunPaths and
\* each time, worked out once.
FileAnalyses ==
  {[filePath |-> RunPaths[i], now |-> t,
    ret |-> analyzeFile(RunPaths[i], ContentAt(RunPaths[i]),
                        getLanguageFromFile(RunPaths[i]), t)] :
     i \in 1..Len(RunPaths), t \in 0..MaxClock}

\* The analyzeFile call of a pass of either loop: the content is the one
\* read at filePath and the language the one its name resolves to.
Analyzed(filePath, now) ==
  (CHOOSE e \in FileAnalyses : e.filePath = filePath /\ e.now = now).ret

RECURSIVE Tally(_, _)
\* analysis.issues.forEach: totalIssues++ and summary[`${severity}Issues']++
Tally(summary, issues) ==
  IF issues = <<>> THEN summary
  ELSE Tally([summary EXCEPT !.totalIssues = @ + 1,
                             ![SeverityField(Head(issues).severity)] = @ + 1],
             Tail(issues))

\* The body of `if (language)' with the file's issues put first.
RepoAggregatePrepending(res, filePath, language, fileAnalysis) ==
  LET issues == fileAnalysis.issues
  IN  [summary |-> [Tally(res.summary, issues) EXCEPT
                      !.analyzedFiles = @ + 1,
                      !.totalLines = @ + fileAnalysis.metrics.lines],
       files |-> Append(res.files,
                        [path |-> filePath, language |-> language,
                         metrics |-> fileAnalysis.metrics,
                         issuesCount |-> Len(issues)]),
       issues |-> issues \o res.issues]

\* The body of `if (language)': the file's entry, issues and tallies.
RepoAggregate(res, filePath, language, fileAnalysis) ==
  LET issues == fileAnalysis.issues
  IN  [summary |-> [Tally(res.summary, issues) EXCEPT
                      !.analyzedFiles = @ + 1,
                      !.totalLines = @ + fileAnalysis.metrics.lines],
       files |-> Append(res.files,
                        [path |-> filePath, language |-> language,
                         metrics |-> fileAnalysis.metrics,
                         issuesCount |-> Len(issues)]),
       issues |-> res.issues \o issues]

\* What one pass of the loop leaves: the results, the analyzeFile call made
\* (if any) and what the try block came to.
Pass(res, c, r) == [results |-> res, call |-> c, ret |-> r]

\* A pass that keeps the issues of the last file only.
RepoAnalyzedLastIssues(res, filePath, language, now, r) ==
  LET c == [filePath |-> filePath, language |-> language, now |-> now]
  IN  IF r.threw THEN Pass(res, c, r)
      ELSE Pass([RepoAggregate(res, filePath, language, r.value) EXCEPT
                   !.issues = r.value.issues], c, r)

\* The pass from the point where the analyzeFile call has come to r.
RepoAnalyzed(res, filePath, language, now, r) ==
  LET c == [filePath |-> filePath, language |-> language, now |-> now]
  IN  IF r.threw THEN Pass(res, c, r)
      ELSE Pass(RepoAggregate(res, filePath, language, r.value), c, r)

\* One pass of the loop with the file counted before it is read.
RepoIterationCounting(res, filePath, now) ==
  LET language == getLanguageFromFile(filePath)
      counted == [res EXCEPT !.summary.analyzedFiles = @ + 1]
  IN  IF ReadFails(filePath)
      THEN Pass(counted, NotCalled, Thrown(ReadError(filePath)))
      ELSE IF language = NoLanguage THEN Pass(res, NotCalled, NotReturned)
      ELSE RepoAnalyzed(res, filePath, language, now, Analyzed(filePath, now))

\* One pass of the loop of analyzeRepository: try { readFile; language;
\* analyzeFile; aggregate } catch { console.error }.
RepoIteration(res, filePath, now) ==
  LET language == getLanguageFromFile(filePath)
  IN  IF ReadFails(filePath)
      THEN Pass(res, NotCalled, Thrown(ReadError(filePath)))
      ELSE IF language = NoLanguage THEN Pass(res, NotCalled, NotReturned)
      ELSE RepoAnalyzed(res, filePath, language, now, Analyzed(filePath, now))

\* What new Date() / Date.now() may give after the time now.
Later(now) == {t \in {now, now + 1} : t <= MaxClock}

\* const files = await this.getSourceFiles(...); totalFiles = files.length
RepoScan ==
  /\ mode = "repository"
  /\ pc = "start"
  /\ files' = getSourceFiles(tree, options)
  /\ results' = [results EXCEPT !.summary.totalFiles = Len(files')]
  /\ pc' = "loop"
  /\ UNCHANGED <<call, ret, mode, engine, walk, tree, options, clock, idx, analysis,
                 modified, locals, db, statistics, route, cancelMark>>

\* readdir fails on the repository's directory: scanDirectory logs it and
\* getSourceFiles returns no file.
RepoScanFails ==
  /\ mode = "repository"
  /\ pc = "start"
  /\ files' = <<>>
  /\ results' = [results EXCEPT !.summary.totalFiles = 0]
  /\ pc' = "loop"
  /\ UNCHANGED <<call, ret, mode, engine, walk, tree, options, clock, idx, analysis,
                 modified, locals, db, statistics, route, cancelMark>>

RepoFile ==
  /\ mode = "repository"
  /\ pc = "loop"
  /\ idx < Len(files)
  /\ \E now \in Later(clock) :
       /\ clock' = now
       /\ \E pass \in {RepoIteration(results, files[idx + 1], now)} :
              /\ results' = pass.results
              /\ call' = pass.call
              /\ ret' = pass.ret
       /\ idx' = idx + 1
       /\ UNCHANGED <<pc, mode, engine, walk, tree, options, files, analysis, modified,
                      locals, db, statistics, route, cancelMark>>

\* return results
RepoReturn ==
  /\ mode = "repository"
  /\ pc = "loop"
  /\ idx = Len(files)
  /\ pc' = "done"
  /\ UNCHANGED <<call, ret, runVars>>

---------------------------------------------------------------------------
(* startAnalysis (the background job of POST /api/analysis) *)

SaveEvery == 10

Log(level, text, path, message) ==
  [level |-> level, text |-> text, path |-> path, message |-> message]

\* What one pass of the job's loop leaves.
JobPass(doc, loc, c, r, paths, save) ==
  [analysis |-> doc, locals |-> loc, call |-> c, ret |-> r, paths |-> paths,
   save |-> save]

\* catch (error) { analysis.logs.push({level: 'error', ...}) }
JobCaught(doc, loc, c, r, filePath) ==
  JobPass([doc EXCEPT !.logs = Append(@, Log("error", "Error analyzing file",
                                             filePath, r.error))],
          loc, c, r, {"logs"}, FALSE)

\* A pass whose progress is not scaled by the number of files.
JobAnalyzedUnscaled(doc, loc, filePath, total, now, r) ==
  LET c == [filePath |-> filePath, language |-> getLanguageFromFile(filePath),
            now |-> now]
      totalLines == loc.totalLines + r.value.metrics.lines
      processedFiles == loc.processedFiles + 1
      added == addIssues(doc, r.value.issues)
  IN  IF r.threw THEN JobCaught(doc, loc, c, r, filePath)
      ELSE JobPass([added EXCEPT
                      !.progress = 20 + processedFiles * 70,
                      !.scope.totalLines = totalLines,
                      !.summary.filesAnalyzed = processedFiles,
                      !.summary.linesAnalyzed = totalLines],
                   [totalLines |-> totalLines, processedFiles |-> processedFiles],
                   c, r, {"issues", "summary", "progress", "scope"},
                   processedFiles % SaveEvery = 0)

\* The pass from the point where the analyzeFile call has come to r.
JobAnalyzed(doc, loc, filePath, total, now, r) ==
  LET c == [filePath |-> filePath, language |-> getLanguageFromFile(filePath),
            now |-> now]
      totalLines == loc.totalLines + r.value.metrics.lines
      processedFiles == loc.processedFiles + 1
      added == addIssues(doc, r.value.issues)
  IN  IF r.threw THEN JobCaught(doc, loc, c, r, filePath)
      ELSE JobPass([added EXCEPT
                      !.progress = 20 + (processedFiles * 70) \div total,
                      !.scope.totalLines = totalLines,
                      !.summary.filesAnalyzed = processedFiles,
                      !.summary.linesAnalyzed = totalLines],
                   [totalLines |-> totalLines, processedFiles |-> processedFiles],
                   c, r, {"issues", "summary", "progress", "scope"},
                   processedFiles % SaveEvery = 0)

\* One pass of the loop of startAnalysis once the content request has
\* answered; total is sourceFiles.length.
JobIteration(doc, loc, filePath, total, now) ==
  IF ReadFails(filePath)
  THEN JobCaught(doc, loc, NotCalled, Thrown(ReadError(filePath)), filePath)
  ELSE JobAnalyzed(doc, loc, filePath, total, now, Analyzed(filePath, now))


\* The filter without its language test.
SourceFilesOfAnyKind(listing, excludePaths) ==
  SelectSeq(listing,
            LAMBDA f : Len(excludePaths) = 0 \/ ~Some(excludePaths, f))

\* files.filter(file => language && (!excludePaths.length || !excludePaths.some(...)))
SourceFiles(listing, excludePaths) ==
  SelectSeq(listing,
            LAMBDA f : /\ getLanguageFromFile(f) # NoLanguage
                       /\ (Len(excludePaths) = 0 \/ ~Some(excludePaths, f)))

\* repository.updateStats; the average is exact for a first analysis.
updateStats(stats, analysisData, now) ==
  LET count == stats.totalAnalyses + 1
      counted == [stats EXCEPT !.totalAnalyses = count,
                               !.lastAnalysis = now,
                               !.totalIssues = @ + analysisData.issuesCount,
                               !.linesAnalyzed = @ + analysisData.linesAnalyzed]
  IN  IF analysisData.duration # 0 /\ analysisData.duration # NoTime
      THEN [counted EXCEPT !.avgAnalysisTime =
              (@ * (count - 1) + analysisData.duration) \div count]
      ELSE counted

\* const analysis = await Analysis.findById(analysisId)
JobLoad ==
  /\ mode = "job"
  /\ pc = "start"
  /\ analysis' = db
  /\ modified' = {}
  /\ pc' = "loaded"
  /\ UNCHANGED <<call, ret, mode, engine, walk, tree, options, clock, files, idx, results,
                 locals, db, statistics, route, cancelMark>>

\* status = 'running'; startTime = new Date(); save(); logs.push(...); then
\* the tree is asked for.
JobMarkRunning ==
  /\ mode = "job"
  /\ pc = "loaded"
  /\ \E now \in Later(clock) :
       /\ clock' = now
       /\ LET running == [analysis EXCEPT !.status = "running", !.startTime = now]
          IN  /\ db' = Save(db, running, modified \cup {"status", "startTime"})
              /\ analysis' = [running EXCEPT !.logs =
                                Append(@, Log("info", "Analysis started", NoPath, ""))]
       /\ modified' = {"logs"}
       /\ pc' = "tree"
       /\ UNCHANGED <<call, ret, mode, engine, walk, tree, options, files, idx, results,
                      locals, statistics, route, cancelMark>>

\* getRepositoryTree answers: totalFiles, progress 10, save().
JobTree ==
  /\ mode = "job"
  /\ pc = "tree"
  /\ analysis' = [analysis EXCEPT !.scope.totalFiles = Len(tree), !.progress = 10]
  /\ db' = Save(db, analysis', modified \cup {"scope", "progress"})
  /\ modified' = {}
  /\ pc' = "filter"
  /\ UNCHANGED <<call, ret, mode, engine, walk, tree, options, clock, files, idx, results,
                 locals, statistics, route, cancelMark>>

\* getRepositoryTree throws: on to the catch block of startAnalysis.
JobTreeFails ==
  /\ mode = "job"
  /\ pc = "tree"
  /\ ret' = Thrown("Not Found")
  /\ pc' = "catch"
  /\ UNCHANGED <<call, runVars>>

\* The source files, scope.files, scope.languages, progress 20, save().
JobFilter ==
  /\ mode = "job"
  /\ pc = "filter"
  /\ files' = SourceFiles(tree, analysis.configuration.excludePaths)
  /\ analysis' = [analysis EXCEPT
                    !.scope.files = files',
                    !.scope.languages =
                       Distinct([i \in 1..Len(files') |-> getLanguageFromFile(files'[i])]),
                    !.progress = 20]
  /\ db' = Save(db, analysis', modified \cup {"scope", "progress"})
  /\ modified' = {}
  /\ pc' = "loop"
  /\ UNCHANGED <<call, ret, mode, engine, walk, tree, options, clock, idx, results, locals,
                 statistics, route, cancelMark>>

\* The top of the loop: the next file, unless the job's document says
\* cancelled; its content is asked for.
JobFetch ==
  /\ mode = "job"
  /\ pc = "loop"
  /\ idx < Len(files)
  /\ analysis.status # "cancelled"
  /\ pc' = "fetching"
  /\ UNCHANGED <<call, ret, runVars>>

\* getFileContent answers or throws; the rest of the pass.
JobFile ==
  /\ mode = "job"
  /\ pc = "fetching"
  /\ \E now \in Later(clock) :
       /\ clock' = now
       /\ \E pass \in {JobIteration(analysis, locals, files[idx + 1], Len(files), now)} :
              /\ analysis' = pass.analysis
              /\ locals' = pass.locals
              /\ call' = pass.call
              /\ ret' = pass.ret
              /\ IF pass.save
                 THEN /\ db' = Save(db, pass.analysis, modified \cup pass.paths)
                      /\ modified' = {}
                 ELSE /\ db' = db
                      /\ modified' = modified \cup pass.paths
       /\ idx' = idx + 1
       /\ pc' = "loop"
       /\ UNCHANGED <<mode, engine, walk, tree, options, files, results, statistics,
                      route, cancelMark>>

\* After the loop: score, completed, progress 100, end time and duration,
\* repository.updateStats -- unless the job's document says cancelled.
JobComplete ==
  /\ mode = "job"
  /\ pc = "loop"
  /\ idx = Len(files) \/ analysis.status = "cancelled"
  /\ \E now \in Later(clock) :
       /\ clock' = now
       /\ IF analysis.status # "cancelled"
          THEN LET scored == calculateScore(analysis)
                   duration == Duration(analysis.startTime, now)
               IN  /\ analysis' = [scored EXCEPT !.status = "completed",
                                                 !.progress = 100,
                                                 !.endTime = now,
                                                 !.duration = duration]
                   /\ modified' = modified \cup {"summary", "status", "progress",
                                                 "endTime", "duration"}
                   /\ statistics' =
                        updateStats(statistics,
                                    [issuesCount |-> scored.summary.totalIssues,
                                     linesAnalyzed |-> scored.summary.linesAnalyzed,
                                     duration |-> duration], now)
          ELSE UNCHANGED <<analysis, modified, statistics>>
       /\ pc' = "saving"
       /\ UNCHANGED <<call, ret, mode, engine, walk, tree, options, files, idx, results,
                      locals, db, route, cancelMark>>

\* await analysis.save()
JobSave ==
  /\ mode = "job"
  /\ pc = "saving"
  /\ db' = Save(db, analysis, modified)
  /\ modified' = {}
  /\ pc' = "done"
  /\ UNCHANGED <<call, ret, mode, engine, walk, tree, options, clock, files, idx, results,
                 analysis, locals, statistics, route, cancelMark>>

\* A catch block that only logs the error.
JobFailLogged ==
  /\ mode = "job"
  /\ pc = "catch"
  /\ pc' = "done"
  /\ UNCHANGED <<call, ret, runVars>>

\* catch: the document is read again, marked failed and saved.
JobFail ==
  /\ mode = "job"
  /\ pc = "catch"
  /\ \E now \in Later(clock) :
       /\ clock' = now
       /\ analysis' = [db EXCEPT !.status = "failed", !.error = ret.error,
                                 !.endTime = now,
                                 !.duration = Duration(db.startTime, now)]
       /\ db' = Save(db, analysis', {"status", "error", "endTime", "duration"})
       /\ modified' = {}
       /\ pc' = "done"
       /\ UNCHANGED <<call, ret, mode, engine, walk, tree, options, files, idx, results,
                      locals, statistics, route, cancelMark>>

---------------------------------------------------------------------------
(* PUT /api/analysis/:id/cancel *)

\* const analysis = await Analysis.findById(req.params.id): the record of
\* the job, or none when the id names no analysis (404).
CancelLoad ==
  /\ mode = "job"
  /\ route.pc = "idle"
  /\ route.requests < MaxRequests
  /\ \E user \in Users, found \in BOOLEAN :
       route' = IF found
                THEN [pc |-> "loaded", doc |-> Loaded(db), user |-> user,
                      response |-> 0, requests |-> route.requests + 1]
                ELSE [IdleRoute(route.requests + 1) EXCEPT !.response = 404]
  /\ UNCHANGED <<pc, call, ret, mode, engine, walk, tree, options, clock, files, idx,
                 results, analysis, modified, locals, db, statistics,
                 cancelMark>>

\* The route without its test of the status.
CancelSaveAnyStatus ==
  /\ mode = "job"
  /\ route.pc = "loaded"
  /\ IF route.user # "owner"
     THEN /\ route' = [IdleRoute(route.requests) EXCEPT !.response = 403]
          /\ UNCHANGED <<db, cancelMark, clock>>
     ELSE \E now \in Later(clock) :
               /\ clock' = now
               /\ db' = Save(db, [status |-> "cancelled", endTime |-> now,
                                   duration |-> Duration(route.doc.startTime, now)],
                             {"status", "endTime", "duration"})
               /\ route' = [IdleRoute(route.requests) EXCEPT !.response = 200]
               /\ cancelMark' = [set |-> TRUE, pc |-> pc, idx |-> idx,
                                 filesAnalyzed |-> analysis.summary.filesAnalyzed,
                                 issues |-> Len(analysis.issues)]
  /\ UNCHANGED <<pc, call, ret, mode, engine, walk, tree, options, files, idx,
                 results, analysis, modified, locals, statistics>>

\* The checks (403, 400), then cancelled with its end time and duration,
\* saved, and the answer 200.
CancelSave ==
  /\ mode = "job"
  /\ route.pc = "loaded"
  /\ IF route.user # "owner"
     THEN /\ route' = [IdleRoute(route.requests) EXCEPT !.response = 403]
          /\ UNCHANGED <<db, cancelMark, clock>>
     ELSE IF route.doc.status \notin {"pending", "running"}
     THEN /\ route' = [IdleRoute(route.requests) EXCEPT !.response = 400]
          /\ UNCHANGED <<db, cancelMark, clock>>
     ELSE \E now \in Later(clock) :
               /\ clock' = now
               /\ db' = Save(db, [status |-> "cancelled", endTime |-> now,
                                   duration |-> Duration(route.doc.startTime, now)],
                             {"status", "endTime", "duration"})
               /\ route' = [IdleRoute(route.requests) EXCEPT !.response = 200]
               /\ cancelMark' = [set |-> TRUE, pc |-> pc, idx |-> idx,
                                 filesAnalyzed |-> analysis.summary.filesAnalyzed,
                                 issues |-> Len(analysis.issues)]
  /\ UNCHANGED <<pc, call, ret, mode, engine, walk, tree, options, files, idx,
                 results, analysis, modified, locals, statistics>>

---------------------------------------------------------------------------
(* A run of analyzeRepository or of startAnalysis over a repository *)

Init ==
  /\ pc = "start"
  /\ call = NotCalled
  /\ ret = NotReturned
  /\ \E m \in {"repository", "job"}, t \in FileLists, o \in OptionSets :
       /\ m = "job" => "includePaths" \notin DOMAIN o
       /\ m = "repository" => "rules" \notin DOMAIN o
       /\ RunInit(m, t, o)
  /\ walk = NoWalk

Next ==
  \/ RepoScan
  \/ RepoScanFails
  \/ RepoFile
  \/ RepoReturn
  \/ JobLoad
  \/ JobMarkRunning
  \/ JobTree
  \/ JobTreeFails
  \/ JobFilter
  \/ JobFetch
  \/ JobFile
  \/ JobComplete
  \/ JobSave
  \/ JobFail
  \/ CancelLoad
  \/ CancelSave

Spec == Init /\ [][Next]_vars

---------------------------------------------------------------------------
(* A background job on its own: the store and the file provider answer     *)
(* every request, and the job's steps and the route's are taken in time.   *)

JobInit == Init /\ mode = "job"

JobNext ==
  \/ JobLoad
  \/ JobMarkRunning
  \/ JobTree
  \/ JobTreeFails
  \/ JobFilter
  \/ JobFetch
  \/ JobFile
  \/ JobComplete
  \/ JobSave
  \/ JobFail
  \/ CancelLoad
  \/ CancelSave

JobPcs == {"start", "loaded", "tree", "filter", "loop", "fetching", "saving",
           "catch", "done"}

\* The job's next step, seen on pc alone: every step of the job changes pc,
\* and at every pc but "done" one of them is enabled (JobStepEnabled), so
\* weak fairness of this action is weak fairness of the job's steps.  The
\* route is under no obligation: a request need not come.
JobAdvances ==
  /\ mode = "job"
  /\ pc # "done"
  /\ pc' \in JobPcs \ {pc}

JobStep ==
  \/ JobLoad
  \/ JobMarkRunning
  \/ JobTree
  \/ JobTreeFails
  \/ JobFilter
  \/ JobFetch
  \/ JobFile
  \/ JobComplete
  \/ JobSave
  \/ JobFail

JobStepEnabled == (mode = "job" /\ pc # "done") => ENABLED JobStep

SpecJob == JobInit /\ [][JobNext]_vars /\ WF_pc(JobAdvances)

---------------------------------------------------------------------------
(* Properties of one analyzeFile call *)

Returns == pc \in {"returned", "again"}

\* What parseFile made of the call's content.
CallParse == parseFile(call.content, call.language)

\* The call got a tree from parseFile.
CallParsed == ~CallParse.threw /\ CallParse.value.root # Null

\* The tree of the call when every walk over it completes.
CallTree == Ast(CallParse.value.heap, "none")

IssuesOfRule(issues, id) == SelectSeq(issues, LAMBDA i : i.rule.id = id)

IssuesOfType(issues, type) == SelectSeq(issues, LAMBDA i : i.type = type)

\* C3: when the parser fails, analyzeFile returns exactly one Finding (type
\* bug, severity high, rule parse-error, line 1, column 1, the parser's
\* message in its description) and metrics with complexity, functions and
\* classes 0 and the line count of the content.
C3_ParseFailureResult ==
  (Returns /\ CallParse.threw) =>
     /\ ~ret.threw
     /\ Len(ret.value.issues) = 1
     /\ LET i == ret.value.issues[1]
        IN  /\ i.type = "bug"
            /\ i.severity = "high"
            /\ i.rule.id = "parse-error"
            /\ i.file = [path |-> call.filePath, line |-> 1, column |-> 1]
            /\ i.description.message = call.content.syntax.message
     /\ ret.value.metrics =
          [complexity |-> 0,
           lines |-> Cardinality({k \in 1..Len(call.content.chars) :
                                    call.content.chars[k] = "\n"}) + 1,
           functions |-> 0, classes |-> 0]

C3_Witness ==
  /\ Returns
  /\ call.language = "typescript"
  /\ call.content.syntax.throws
  /\ Len(ret.value.issues) = 1
  /\ ret.value.issues[1].description.message = "Unexpected token"
  /\ ret.value.metrics.lines = 3

\* C4 (as claimed): when one analyzer throws on a parsed file, the result
\* holds the findings of the other analyzers, in order, the metrics of the
\* tree, and no parse-error Finding.
C4_AnalyzerFailureIsolated ==
  (Returns /\ CallParsed /\ call.language \in ExpressionLanguages
     /\ CallParse.value.raises \in
          {"analyzeSecurity", "analyzePerformance", "analyzeBugs"}) =>
     LET r == CallParse.value.raises
         t == CallTree
         others ==
           analyzeComplexity(t, call.filePath, call.now).value
           \o (IF r = "analyzeSecurity" THEN <<>>
               ELSE analyzeSecurity(t, call.filePath, call.language).value)
           \o (IF r = "analyzePerformance" THEN <<>>
               ELSE analyzePerformance(t, call.filePath, call.language).value)
           \o (IF r = "analyzeBugs" THEN <<>>
               ELSE analyzeBugs(t, call.filePath, call.language).value)
     IN  /\ ~ret.threw
         /\ ret.value.issues = others
         /\ IssuesOfRule(ret.value.issues, "parse-error") = <<>>
         /\ ret.value.metrics.complexity = calculateComplexity(t).value
         /\ ret.value.metrics.functions = countFunctions(t).value
         /\ ret.value.metrics.classes = countClasses(t).value

\* C5: analyzeFile never throws: whatever the content, the language and the
\* failure inside (parser, analyzer or metric), it returns a result with an
\* issues sequence and a metrics record.
C5_NeverThrows ==
  Returns =>
     /\ ~ret.threw
     /\ DOMAIN ret.value = {"issues", "metrics"}
     /\ DOMAIN ret.value.issues = 1..Len(ret.value.issues)
     /\ DOMAIN ret.value.metrics = {"complexity", "lines", "functions", "classes"}

C5_Witness ==
  /\ Returns
  /\ CallParsed
  /\ CallParse.value.raises = "countClasses"
  /\ ~ret.threw
  /\ Len(ret.value.issues) >= 1

\* C8 (as claimed): for a syntactically valid file of a supported language,
\* on which no walk fails, the complexity of the returned metrics is >= 1.
C8_ComplexityAtLeastOne ==
  (Returns /\ call.language = getLanguageFromFile(call.filePath)
     /\ call.language \in Languages /\ ~call.content.syntax.throws
     /\ call.content.syntax.ast.raises = "none") =>
     ret.value.metrics.complexity >= 1

\* C9: the result of a parsed file holds exactly one complexity Finding when
\* its complexity exceeds the threshold 10 and none otherwise; the Finding is
\* high above 20 and medium otherwise; 12 independent ifs give complexity 13
\* and one medium Finding.
C9_ComplexityFinding ==
  (Returns /\ CallParsed /\ CallParse.value.raises = "none") =>
     LET c == ret.value.metrics.complexity
         f == IssuesOfType(ret.value.issues, "complexity")
     IN  /\ c > 10 => /\ Len(f) = 1
                      /\ f[1].severity = IF c > 20 THEN "high" ELSE "medium"
                      /\ f[1].rule.id = "complexity"
                      /\ f[1].file.path = call.filePath
         /\ c <= 10 => f = <<>>
         /\ CallParse.value.heap = IfChain(12) =>
              c = 13 /\ Len(f) = 1 /\ f[1].severity = "medium"

C9_Witness ==
  /\ Returns
  /\ CallParsed
  /\ CallParse.value.raises = "none"
  /\ ret.value.metrics.complexity = 21
  /\ Len(IssuesOfType(ret.value.issues, "complexity")) = 1
  /\ IssuesOfType(ret.value.issues, "complexity")[1].severity = "high"

\* The calls of eval in a tree: the call expressions whose callee is the
\* identifier eval.
EvalCalls(heap) ==
  {n \in DOMAIN heap :
     /\ heap[n].type = "CallExpression"
     /\ \E l \in 1..Len(heap[n].links) :
          /\ heap[n].links[l].key = "callee"
          /\ heap[n].links[l].refs[1] # Null
          /\ heap[heap[n].links[l].refs[1]].type = "Identifier"
          /\ heap[heap[n].links[l].refs[1]].name = "eval"}

\* C10: when the security analyzer has run over a tree, there is exactly one
\* no-eval Finding per call of eval, critical and located at the line (and
\* column) of that call, and no no-eval Finding anywhere else.
C10_OneFindingPerEval ==
  (Returns /\ CallParsed /\ call.language \in ExpressionLanguages
     /\ CallParse.value.raises \notin {"calculateComplexity", "analyzeSecurity"}) =>
     LET heap == CallParse.value.heap
         f == IssuesOfRule(ret.value.issues, "no-eval")
     IN  /\ Len(f) = Cardinality(EvalCalls(heap))
         /\ \A n \in EvalCalls(heap) :
              Cardinality({i \in 1..Len(f) :
                             /\ f[i].file.line = heap[n].line
                             /\ f[i].file.column = heap[n].column}) = 1
         /\ \A i \in 1..Len(f) :
              /\ f[i].severity = "critical"
              /\ f[i].type = "security"
              /\ f[i].file.path = call.filePath
              /\ \E n \in EvalCalls(heap) : f[i].file.line = heap[n].line

C10_Witness ==
  /\ Returns
  /\ call.language = "typescript"
  /\ CallParsed
  /\ CallParse.value.heap = EvalScript
  /\ Len(IssuesOfRule(ret.value.issues, "no-eval")) = 3
  /\ Cardinality({i \in 1..Len(ret.value.issues) :
                    /\ ret.value.issues[i].rule.id = "no-eval"
                    /\ ret.value.issues[i].file.line = 3}) = 2

\* The walks analyzeFile makes before it has the issues of analyzeBugs.
UpToBugs ==
  {"calculateComplexity", "analyzeSecurity", "analyzePerformance", "analyzeBugs"}

\* The return statements of a tree that stand in the body of a block
\* statement before another statement, each with the statement after it.
DeadCode(heap) ==
  UNION {{[return |-> ArrayProp(heap, b, "body")[i],
           next |-> ArrayProp(heap, b, "body")[i + 1]] :
            i \in {k \in 1..(Len(ArrayProp(heap, b, "body")) - 1) :
                     heap[ArrayProp(heap, b, "body")[k]].type = "ReturnStatement"}} :
         b \in {n \in DOMAIN heap : heap[n].type = "BlockStatement"}}

\* C11: when the bug analyzer has run over a tree, there is one no-unreachable
\* Finding (type bug, severity medium) for every return statement that is
\* followed by a statement in the body of its block, located at the line and
\* column of the statement after the return, and none for any other return.
C11_UnreachableAtNextStatement ==
  (Returns /\ CallParsed /\ call.language \in ExpressionLanguages
     /\ CallParse.value.raises \notin UpToBugs) =>
     LET heap == CallParse.value.heap
         f == IssuesOfRule(ret.value.issues, "no-unreachable")
         At(d) == [path |-> call.filePath, line |-> heap[d.next].line,
                   column |-> heap[d.next].column]
     IN  /\ Len(f) = Cardinality(DeadCode(heap))
         /\ \A d \in DeadCode(heap) :
              Cardinality({i \in 1..Len(f) : f[i].file = At(d)}) = 1
         /\ \A i \in 1..Len(f) :
              /\ f[i].type = "bug"
              /\ f[i].severity = "medium"
              /\ \E d \in DeadCode(heap) : f[i].file = At(d)

\* The return of line 3 of BugScript is followed by g() at line 4, column 4;
\* the return of line 6 is the last statement of its block.
C11_Witness ==
  /\ Returns
  /\ call.language = "javascript"
  /\ CallParsed
  /\ CallParse.value.heap = BugScript
  /\ CallParse.value.raises = "none"
  /\ Len(IssuesOfRule(ret.value.issues, "no-unreachable")) = 1
  /\ IssuesOfRule(ret.value.issues, "no-unreachable")[1].file.line = 4
  /\ IssuesOfRule(ret.value.issues, "no-unreachable")[1].file.column = 4
  /\ BugScript[10].type = "ReturnStatement" /\ BugScript[10].line = 3
  /\ BugScript[14].type = "ReturnStatement" /\ BugScript[14].line = 6

\* The parent of node n in the visit sequence v.
ParentIn(v, n) == v[CHOOSE i \in 1..Len(v) : v[i].node = n].parent

RECURSIVE LoopLevel(_, _, _)
\* The number of loop statements on the path from the root to node n, n
\* included.
LoopLevel(heap, v, n) ==
  IF n = Null THEN 0
  ELSE (IF heap[n].type \in LoopTypes THEN 1 ELSE 0)
       + LoopLevel(heap, v, ParentIn(v, n))

\* How deep the loops of a tree are nested: 0 without a loop.
LoopNesting(ast) ==
  LET v == Visits(ast)
      levels == {LoopLevel(ast.heap, v, v[i].node) : i \in 1..Len(v)}
  IN  CHOOSE d \in levels : \A e \in levels : e <= d

\* The walks analyzeFile makes before it has the issues of
\* analyzePerformance.
UpToPerformance == {"calculateComplexity", "analyzeSecurity", "analyzePerformance"}

\* C12: when the performance analyzer has run over a tree, three for
\* statements nested inside one another give exactly one max-nested-loops
\* Finding (type performance, severity medium, at the outermost loop) and it
\* reports 3 levels; a tree whose loops are nested at most 2 levels deep gives
\* no such Finding.
C12_ThreeNestedLoops ==
  (Returns /\ CallParsed /\ call.language \in ExpressionLanguages
     /\ CallParse.value.raises \notin UpToPerformance) =>
     LET f == IssuesOfRule(ret.value.issues, "max-nested-loops")
     IN  /\ CallParse.value.heap = NestedFor(3) =>
              /\ Len(f) = 1
              /\ f[1].type = "performance"
              /\ f[1].severity = "medium"
              /\ f[1].title.numbers = <<3>>
              /\ f[1].file = [path |-> call.filePath, line |-> 1, column |-> 0]
         /\ LoopNesting(CallTree) <= 2 => f = <<>>

C12_Witness ==
  /\ Returns
  /\ call.language = "javascript"
  /\ CallParsed
  /\ CallParse.value.heap = NestedFor(3)
  /\ CallParse.value.raises = "none"
  /\ LoopNesting(CallTree) = 3
  /\ Len(IssuesOfType(ret.value.issues, "performance")) = 1
  /\ ret.value.issues[1].rule.id = "max-nested-loops"
  /\ ret.value.issues[1].title.numbers = <<3>>

\* A Finding without its id.
Unidentified(issue) ==
  [type |-> issue.type, severity |-> issue.severity, title |-> issue.title,
   description |-> issue.description, file |-> issue.file, rule |-> issue.rule]

\* Two results of analyzeFile agree: as many Findings, the i-th of the same
\* category, severity, location and rule, and the same metrics.
SameResult(a, b) ==
  /\ a.threw = b.threw
  /\ ~a.threw =>
       /\ Len(a.value.issues) = Len(b.value.issues)
       /\ \A i \in 1..Len(a.value.issues) :
            /\ a.value.issues[i].type = b.value.issues[i].type
            /\ a.value.issues[i].severity = b.value.issues[i].severity
            /\ a.value.issues[i].file = b.value.issues[i].file
            /\ a.value.issues[i].rule = b.value.issues[i].rule
       /\ a.value.metrics = b.value.metrics

EnabledCategories ==
  {rules[r].category : r \in {q \in DOMAIN rules : rules[q].enabled}}

Severities == {"low", "medium", "high", "critical"}

\* C18 (as claimed): every Finding analyzeFile returns has a rule with an id
\* and a name, a severity of the four, and a category (its type) that is the
\* category of an enabled entry of the rule set.
C18_FindingsWellFormed ==
  (Returns /\ ~ret.threw) =>
     \A i \in 1..Len(ret.value.issues) :
       /\ ret.value.issues[i].rule.id # ""
       /\ ret.value.issues[i].rule.name # ""
       /\ ret.value.issues[i].severity \in Severities
       /\ ret.value.issues[i].type \in EnabledCategories

\* The place of a Finding's analyzer among the four calls of analyzeFile.
AnalyzerRank(type) ==
  CASE type = "complexity" -> 1
    [] type = "security" -> 2
    [] type = "performance" -> 3
    [] type = "bug" -> 4

\* The position, in the walk v of the tree, of the first node at which a
\* callback emits the Finding f; 0 for a Finding no callback emits.
EmittedAt(heap, v, f) ==
  LET at == {i \in 1..Len(v) :
               \E g \in {SecurityCallback(heap, v[i].node, f.file.path),
                          PerformanceCallback(heap, v[i].node, f.file.path),
                          BugsCallback(heap, v[i].node, v[i].parent, f.file.path)} :
                 \E k \in 1..Len(g) : g[k] = f}
  IN  IF at = {} THEN 0 ELSE CHOOSE i \in at : \A j \in at : i <= j

\* C21: when the file parses and every walk completes, the Findings come
\* analyzer by analyzer -- complexity, security, performance, bugs -- and
\* those of one analyzer in the order in which its walk met their nodes.
C21_OrderedByAnalyzer ==
  (Returns /\ CallParsed /\ CallParse.value.raises = "none") =>
     LET f == ret.value.issues
         v == Visits(CallTree)
     IN  \A i, j \in 1..Len(f) :
           i < j =>
             \/ AnalyzerRank(f[i].type) < AnalyzerRank(f[j].type)
             \/ /\ f[i].type = f[j].type
                /\ EmittedAt(CallTree.heap, v, f[i]) <= EmittedAt(CallTree.heap, v, f[j])

\* MixedScript has Findings of all four analyzers, in the source in the
\* order bug (line 1), performance (2), security (3), bug (7).
C21_Witness ==
  /\ Returns
  /\ call.language = "javascript"
  /\ CallParsed
  /\ CallParse.value.heap = MixedScript
  /\ CallParse.value.raises = "none"
  /\ [i \in 1..Len(ret.value.issues) |-> ret.value.issues[i].type] =
       <<"complexity", "security", "security", "performance", "bug", "bug">>
  /\ [i \in 1..Len(ret.value.issues) |-> ret.value.issues[i].file.line] =
       <<1, 3, 3, 2, 1, 7>>

\* The nodes of a tree that are a decision point: an if, a ternary, a switch
\* case, a loop, a catch clause, or a logical expression with && or ||.
DecisionPoints(heap) ==
  {n \in DOMAIN heap :
     \/ heap[n].type \in {"IfStatement", "ConditionalExpression", "SwitchCase"}
     \/ heap[n].type \in {"ForStatement", "ForInStatement", "ForOfStatement",
                          "WhileStatement", "DoWhileStatement"}
     \/ heap[n].type = "CatchClause"
     \/ heap[n].type = "LogicalExpression" /\ heap[n].operator \in {"&&", "||"}}

\* C22: the complexity of a parsed file is 1 plus the number of its decision
\* points, each node counted once and no other node counted.
C22_ComplexityCountsDecisions ==
  (Returns /\ CallParsed /\ CallParse.value.raises \notin UpToBugs) =>
     ret.value.metrics.complexity =
       1 + Cardinality(DecisionPoints(CallParse.value.heap))

\* MixedScript: three loops, two switch cases, a catch clause, a ||, an if,
\* a for, a for-in and a for-of, among 48 nodes.
C22_Witness ==
  /\ Returns
  /\ CallParsed
  /\ CallParse.value.heap = MixedScript
  /\ CallParse.value.raises = "none"
  /\ Cardinality(DecisionPoints(MixedScript)) = 11
  /\ Len(MixedScript) = 48
  /\ ret.value.metrics.complexity = 12

\* What C25 says of every state: the engine's rules and language table are
\* as the constructor left them, and the rule a complexity Finding carries
\* (the engine's own object, not a copy) is the rule as it was.
C25_AsConstructed ==
  /\ engine.rules = rules
  /\ engine.supportedLanguages = supportedLanguages
  /\ (Returns /\ ~ret.threw) =>
       \A i \in 1..Len(ret.value.issues) :
         ret.value.issues[i].type = "complexity" =>
           ret.value.issues[i].rule = engine.rules.complexity

---------------------------------------------------------------------------
(* Properties of the walks *)

\* The child nodes of node p, in key and array order: the objects with a
\* type that a key other than parent holds, alone or in an array.
ChildSeq(heap, p) ==
  Flatten([k \in 1..Len(heap[p].links) |->
             IF heap[p].links[k].key = "parent" THEN <<>>
             ELSE SelectSeq(heap[p].links[k].refs,
                            LAMBDA r : r # Null /\ heap[r].type # "")])

\* The node that has n among its child nodes; Null for the root.
StructParent(heap, n) ==
  LET ps == {p \in DOMAIN heap :
               \E i \in 1..Len(ChildSeq(heap, p)) : ChildSeq(heap, p)[i] = n}
  IN  IF ps = {} THEN Null ELSE CHOOSE p \in ps : TRUE

RECURSIVE Under(_, _, _)
\* n is a or lies below a (par gives the parent of each node).
Under(par, a, n) == n # Null /\ (n = a \/ Under(par, a, par[n]))

\* nl, a sequence of visits, is the pre-order walk of the tree: every node
\* below the root once, each with its parent, the nodes below a node right
\* after it without a gap, and the children of a node in their order.
PreOrder(heap, nl) ==
  LET par == [n \in DOMAIN heap |-> StructParent(heap, n)]
      reach == {n \in DOMAIN heap : heap[n].type # "" /\ Under(par, 1, n)}
      Pos(n) == CHOOSE i \in 1..Len(nl) : nl[i].node = n
      Sub(n) == {d \in reach : Under(par, n, d)}
  IN  /\ Len(nl) = Cardinality(reach)
      /\ \A n \in reach : \E i \in 1..Len(nl) : nl[i].node = n
      /\ \A i \in 1..Len(nl) : nl[i].parent = par[nl[i].node]
      /\ \A n \in reach :
           {Pos(d) : d \in Sub(n)} = Pos(n)..(Pos(n) + Cardinality(Sub(n)) - 1)
      /\ \A p \in reach :
           \A a, b \in 1..Len(ChildSeq(heap, p)) :
             a < b => Pos(ChildSeq(heap, p)[a]) < Pos(ChildSeq(heap, p)[b])

NoRepeat(s) == \A i, j \in 1..Len(s) : i < j => s[i].node # s[j].node

\* C14: traverseAST hands no object to the callback twice and writes into
\* node.parent the parent it hands over; when the walk is over, the nodes it
\* has handed over are every node below the root, once each, in pre-order
\* (a node before the nodes below it, children in key and array order), each
\* with its immediate parent, null for the root.
C14_PreOrderWalk ==
  (mode = "walk" /\ walk.fn = "traverseAST") =>
     /\ NoRepeat(walk.log)
     /\ \A i \in 1..Len(walk.log) :
          Prop(walk.heap, walk.log[i].node, "parent") = walk.log[i].parent
     /\ walk.stack = <<>> =>
          /\ PreOrder(walk.tree,
                      SelectSeq(walk.log, LAMBDA v : walk.tree[v.node].type # ""))
          /\ walk.log = Visits(Ast(walk.tree, "none"))

\* The second walk over BugScript is over: 31 objects handed over (the
\* object under `regex' is not one), the last the entry of `errors'.
C14_Witness ==
  /\ mode = "walk"
  /\ walk.fn = "traverseAST"
  /\ walk.stack = <<>>
  /\ walk.walks = 2
  /\ walk.tree = BugScript
  /\ Len(walk.log) = 31
  /\ walk.log[31] = [node |-> 32, parent |-> 1]
  /\ walk.log[10] = [node |-> 10, parent |-> 9]

\* The steps one call takes on a tree at most: for each object its entry, its
\* return, its keys (parent among them) and the elements of its arrays.
Size(heap) ==
  Sum([n \in 1..Len(heap) |->
         3 + Len(heap[n].links)
         + Sum([k \in 1..Len(heap[n].links) |->
                  IF heap[n].links[k].isArray THEN Len(heap[n].links[k].refs)
                  ELSE 0])])

\* What C15 says of every state: no node is under two calls at once or
\* entered twice by one walk, no call is made on the node the key parent of
\* its caller holds, the steps of a call stay within the size of the tree,
\* and findNestedLoops returns on a walked tree what it returns on a new one.
C15_Bounded ==
  mode = "walk" =>
     /\ NoRepeat(walk.stack)
     /\ NoRepeat(walk.log)
     /\ Len(walk.stack) <= Len(walk.tree)
     /\ walk.steps <= Size(walk.tree)
     /\ \A i \in 1..Len(walk.log) :
          walk.log[i].parent # Null =>
            walk.log[i].node # Prop(walk.heap, walk.log[i].parent, "parent")
     /\ walk.result # NoDepth =>
          walk.result = findNestedLoops(walk.tree, walk.log[1].node, 0)

\* Every walk has been made and no call is under way.
C15_Finished ==
  mode = "walk" => (walk.stack = <<>> /\ walk.walks = MaxWalks)

\* C15: every call of traverseAST and of findNestedLoops returns, on a tree
\* as parsed and on a tree whose nodes carry the parent written by an
\* earlier walk: the key parent is never followed, the steps of a call stay
\* within the size of the tree, and all the walks come to their end.
C15_WalksTerminate == [](C15_Bounded) /\ <>[](C15_Finished)

\* findNestedLoops has returned 3 on LoopScript after two walks over it: the
\* for statement of line 1 has node.parent set to the Program.
C15_Witness ==
  /\ mode = "walk"
  /\ walk.tree = LoopScript
  /\ walk.walks = 2
  /\ walk.fn = "findNestedLoops"
  /\ walk.stack = <<>>
  /\ walk.result = 3
  /\ Prop(walk.heap, 2, "parent") = 1
  /\ Prop(walk.heap, 9, "parent") = 1

\* The loop statements of the language.
LoopKinds ==
  {"ForStatement", "ForInStatement", "ForOfStatement", "WhileStatement",
   "DoWhileStatement"}

RECURSIVE LoopsDownTo(_, _, _, _)
\* The number of loop nodes on the path from root down to n, both included.
LoopsDownTo(heap, par, root, n) ==
  (IF heap[n].type \in LoopKinds THEN 1 ELSE 0)
  + (IF n = root THEN 0 ELSE LoopsDownTo(heap, par, root, par[n]))

\* The largest number of loop nodes on a path from root downwards.
NestingUnder(heap, root) ==
  LET par == [n \in DOMAIN heap |-> StructParent(heap, n)]
      sub == {n \in DOMAIN heap : heap[n].type # "" /\ Under(par, root, n)}
      depths == {LoopsDownTo(heap, par, root, n) : n \in sub}
  IN  CHOOSE d \in depths : \A e \in depths : e <= d

\* C23 (as claimed): findNestedLoops called on a loop node returns the
\* largest number of loop nodes on a path from that node downwards, the node
\* itself counted as 1; loops side by side do not add up.
C23_MaxLoopNesting ==
  (mode = "walk" /\ walk.fn = "findNestedLoops" /\ walk.stack = <<>>
     /\ walk.result # NoDepth) =>
     walk.result = NestingUnder(walk.tree, walk.log[1].node)

---------------------------------------------------------------------------
(* Properties of a run *)

\* A step that is one pass of the loop of analyzeRepository.
RepoFilePass ==
  /\ mode = "repository"
  /\ pc = "loop"
  /\ idx < Len(files)
  /\ <<pc, idx, results>>' # <<pc, idx, results>>

\* A step that is one pass of the loop of startAnalysis.
JobFilePass ==
  /\ mode = "job"
  /\ pc = "fetching"
  /\ <<pc, idx>>' # <<pc, idx>>

\* What the job has aggregated: file and line counts, tallies, issues.
JobAggregate ==
  <<analysis.summary, analysis.issues, analysis.scope.totalLines, locals>>

HasLanguage(path) == getLanguageFromFile(path) # NoLanguage

\* The files among the first n of the loop for which P holds.
Passed(n, P(_)) == Cardinality({i \in 1..n : P(files[i])})

CanBeRead(path) == ~ReadFails(path)

CountSeverity(issues, severity) ==
  Len(SelectSeq(issues, LAMBDA i : i.severity = severity))

\* C1 (as claimed): once a cancellation is stored while the job stands
\* between file k and file k+1 of n (1 <= k < n), the job starts no further
\* file, and its analyzed-file count and its issues stay those of the first
\* k files.
C1_CancelStopsRun ==
  (/\ mode = "job"
   /\ cancelMark.set
   /\ cancelMark.pc = "loop"
   /\ cancelMark.idx >= 1
   /\ cancelMark.idx < Len(files)) =>
     /\ idx = cancelMark.idx
     /\ pc # "fetching"
     /\ analysis.summary.filesAnalyzed = cancelMark.filesAnalyzed
     /\ Len(analysis.issues) = cancelMark.issues

\* What C2 says of every state: the loops are left only past the last file,
\* every readable file with a language is then counted, and the job fails
\* only before its loop.
C2_EveryFilePassed ==
  /\ (mode = "repository" /\ pc = "done") =>
        /\ idx = Len(files)
        /\ results.summary.analyzedFiles =
             Passed(Len(files), LAMBDA f : CanBeRead(f) /\ HasLanguage(f))
  /\ (mode = "job" /\ pc \in {"saving", "done"} /\ analysis.status # "failed") =>
        /\ idx = Len(files)
        /\ analysis.status = "completed"
        /\ analysis.summary.filesAnalyzed = Passed(Len(files), CanBeRead)
  /\ (mode = "job" /\ (pc = "catch" \/ analysis.status = "failed")) =>
        /\ idx = 0
        /\ files = <<>>

\* What C2 says of every pass: when the file cannot be read, or the pass
\* throws, the aggregate is as before and the loop goes on to the next file.
C2_FailedPass ==
  /\ (RepoFilePass /\ (ret'.threw \/ ~CanBeRead(files[idx + 1]))) =>
        /\ ret'.threw
        /\ results' = results
        /\ idx' = idx + 1
        /\ pc' = "loop"
  /\ (JobFilePass /\ (ret'.threw \/ ~CanBeRead(files[idx + 1]))) =>
        /\ ret'.threw
        /\ JobAggregate' = JobAggregate
        /\ idx' = idx + 1
        /\ pc' = "loop"

\* C2: a file whose read or analysis fails leaves the aggregate (analyzed
\* files, lines, tallies, file list, issue list) unchanged, the loop goes on
\* with the next file, and the run ends past the last file with every good
\* file counted.
C2_BadFileIsSkipped == [](C2_EveryFilePassed) /\ [][C2_FailedPass]_vars

C2_Witness ==
  /\ mode = "job"
  /\ pc = "done"
  /\ files = << <<"gone", ".", "js">>, <<"lib", "/", "b", ".", "TS">> >>
  /\ analysis.status = "completed"
  /\ analysis.summary.filesAnalyzed = 1
  /\ Len(analysis.issues) >= 1
  /\ \A i \in 1..Len(analysis.issues) :
       analysis.issues[i].file.path = <<"lib", "/", "b", ".", "TS">>
  /\ \E i \in 1..Len(analysis.logs) :
       analysis.logs[i].level = "error" /\ analysis.logs[i].path = <<"gone", ".", "js">>

\* What C6 says of every state: no file entry, issue or error log is of a
\* path without a language, the job's loop holds no such path, and no such
\* file is counted.
C6_NothingOfUnknownFiles ==
  /\ \A i \in 1..Len(results.files) : HasLanguage(results.files[i].path)
  /\ \A i \in 1..Len(results.issues) : HasLanguage(results.issues[i].file.path)
  /\ mode = "repository" =>
       results.summary.analyzedFiles <= Passed(idx, HasLanguage)
  /\ mode = "job" =>
       /\ \A i \in 1..Len(files) : HasLanguage(files[i])
       /\ \A i \in 1..Len(analysis.scope.files) : HasLanguage(analysis.scope.files[i])
       /\ \A i \in 1..Len(analysis.issues) : HasLanguage(analysis.issues[i].file.path)
       /\ \A i \in 1..Len(analysis.logs) :
            analysis.logs[i].path = NoPath \/ HasLanguage(analysis.logs[i].path)
       /\ analysis.summary.filesAnalyzed <= Passed(idx, HasLanguage)

\* What C6 says of the pass of analyzeRepository over a readable file whose
\* path has no language: nothing thrown, results as before, on to the next.
C6_UnknownFilePass ==
  (RepoFilePass /\ ~HasLanguage(files[idx + 1]) /\ CanBeRead(files[idx + 1])) =>
     /\ ~ret'.threw
     /\ results' = results
     /\ idx' = idx + 1
     /\ pc' = "loop"

\* C6: a file whose path resolves to no supported language gives no Finding
\* and no file entry, is not counted in the analyzed files or the lines, and
\* is skipped without an error.
C6_UnknownLanguageSkipped ==
  [](C6_NothingOfUnknownFiles) /\ [][C6_UnknownFilePass]_vars

C6_Witness ==
  /\ mode = "repository"
  /\ pc = "done"
  /\ files = << <<"README", ".", "md">>, <<"a", ".", "js">> >>
  /\ results.summary.totalFiles = 2
  /\ results.summary.analyzedFiles = 1
  /\ results.summary.totalLines = 5
  /\ Len(results.files) = 1
  /\ results.files[1].path = <<"a", ".", "js">>
  /\ ~ret.threw

Tallied(summary, issues) ==
  /\ summary.criticalIssues = CountSeverity(issues, "critical")
  /\ summary.highIssues = CountSeverity(issues, "high")
  /\ summary.mediumIssues = CountSeverity(issues, "medium")
  /\ summary.lowIssues = CountSeverity(issues, "low")
  /\ summary.totalIssues = Len(issues)
  /\ summary.totalIssues = summary.criticalIssues + summary.highIssues
                           + summary.mediumIssues + summary.lowIssues

\* One critical and one medium finding.
TwoFindings ==
  << Issue(IssueId("eval", <<"a", ".", "js">>, 1), "security", "critical",
           Text("Use of eval()", <<>>, ""), Text("", <<>>, ""),
           <<"a", ".", "js">>, 1, 0, Rule("no-eval", "No Eval", "security")),
     Issue(IssueId("complexity", <<"a", ".", "js">>, 0), "complexity", "medium",
           Text("High Cyclomatic Complexity", <<>>, ""), Text("", <<>>, ""),
           <<"a", ".", "js">>, 1, 1,
           Rule("complexity", "Cyclomatic Complexity", "complexity")) >>

\* C7: in the results of analyzeRepository and in the Analysis document (in
\* memory and stored), each severity counter is the number of recorded
\* issues of that severity and totalIssues is the number of recorded issues
\* and the sum of the four counters; one critical and one medium finding
\* give 1, 0, 1, 0 and totalIssues 2.
C7_TalliesMatchFindings ==
  /\ Tallied(results.summary, results.issues)
  /\ Tallied(analysis.summary, analysis.issues)
  /\ Tallied(db.summary, db.issues)
  /\ LET tallies == <<Tally(NewResults.summary, TwoFindings),
                      addIssues(NewAnalysis(Configuration(<<>>)), TwoFindings).summary>>
     IN  \A i \in 1..2 :
           /\ tallies[i].criticalIssues = 1
           /\ tallies[i].highIssues = 0
           /\ tallies[i].mediumIssues = 1
           /\ tallies[i].lowIssues = 0
           /\ tallies[i].totalIssues = 2

C7_Witness ==
  /\ mode = "job"
  /\ idx = 2
  /\ analysis.summary.criticalIssues >= 2
  /\ analysis.summary.highIssues >= 1
  /\ analysis.summary.lowIssues = 1
  /\ analysis.summary.mediumIssues = 0
  /\ analysis.summary.totalIssues = Len(analysis.issues)

\* The Findings of a sequence without their ids (and without the status the
\* Analysis document adds).
UnidentifiedAll(issues) == [i \in 1..Len(issues) |-> Unidentified(issues[i])]

Analysable(path) == CanBeRead(path) /\ HasLanguage(path)

\* The files a loop analyses: analyzeRepository tests the language inside
\* its loop, the job's list holds source files only.
Taken(path) == IF mode = "job" THEN CanBeRead(path) ELSE Analysable(path)

\* What analyzeFile finds in the file at path, ids apart; nothing for a file
\* the loop passes over.
FileIssues(path) ==
  IF Taken(path) THEN UnidentifiedAll(Analyzed(path, 0).value.issues) ELSE <<>>

RECURSIVE Concatenated(_)
\* The per-file issue sequences of the first n files of the loop, one after
\* the other.
Concatenated(n) ==
  IF n = 0 THEN <<>> ELSE Concatenated(n - 1) \o FileIssues(files[n])

\* What C19 says of every state: the file entries are those of the analysed
\* files among the first idx, in the order of the list, and the issues are
\* the per-file sequences of these files one after the other -- also while
\* the job waits for the content of the next file.
C19_InProviderOrder ==
  /\ mode = "repository" =>
       /\ [i \in 1..Len(results.files) |-> results.files[i].path] =
            SelectSeq(SubSeq(files, 1, idx), Analysable)
       /\ UnidentifiedAll(results.issues) = Concatenated(idx)
  /\ (mode = "job" /\ pc \in {"loop", "fetching", "saving", "done"}) =>
       /\ analysis.scope.files = files
       /\ UnidentifiedAll(analysis.issues) = Concatenated(idx)

\* What C19 says of every pass: the file analysed is the next of the list,
\* and what the pass leaves is what was there before with this file's entry
\* and this file's issues put after it.
C19_OneFilePerPass ==
  /\ (RepoFilePass /\ Analysable(files[idx + 1])) =>
        /\ call'.filePath = files[idx + 1]
        /\ ~ret'.threw
        /\ idx' = idx + 1
        /\ results'.issues = results.issues \o ret'.value.issues
        /\ results'.files =
             Append(results.files,
                    [path |-> files[idx + 1], language |-> call'.language,
                     metrics |-> ret'.value.metrics,
                     issuesCount |-> Len(ret'.value.issues)])
  /\ (JobFilePass /\ CanBeRead(files[idx + 1])) =>
        /\ call'.filePath = files[idx + 1]
        /\ ~ret'.threw
        /\ idx' = idx + 1
        /\ analysis'.issues =
             analysis.issues \o
               [i \in 1..Len(ret'.value.issues) |-> CastIssue(ret'.value.issues[i])]

\* C19: the files are analysed one at a time in the order of the provider's
\* list: a pass starts on the aggregate of the files before it, the file
\* entries are in the list's order, and the issue sequence is the
\* concatenation of the per-file issue sequences in that order.
C19_SequentialInOrder == [](C19_InProviderOrder) /\ [][C19_OneFilePerPass]_vars

C19_Witness ==
  /\ mode = "repository"
  /\ pc = "done"
  /\ files = << <<"a", ".", "js">>, <<"lib", "/", "b", ".", "TS">> >>
  /\ Len(results.files) = 2
  /\ results.files[1].path = <<"a", ".", "js">>
  /\ results.files[2].path = <<"lib", "/", "b", ".", "TS">>
  /\ Len(results.issues) >= 2
  /\ results.issues[1].file.path = <<"a", ".", "js">>
  /\ results.issues[Len(results.issues)].file.path = <<"lib", "/", "b", ".", "TS">>


\* The extension table as the list of supported languages gives it.
ListedLanguage(ext) ==
  CASE ext \in {<<".", "js">>, <<".", "jsx">>, <<".", "mjs">>} -> "javascript"
    [] ext \in {<<".", "ts">>, <<".", "tsx">>} -> "typescript"
    [] ext = <<".", "py">> -> "python"
    [] ext = <<".", "java">> -> "java"
    [] ext = <<".", "go">> -> "go"
    [] ext = <<".", "rs">> -> "rust"
    [] ext \in {<<".", "cpp">>, <<".", "cc">>, <<".", "cxx">>, <<".", "hpp">>} -> "cpp"
    [] OTHER -> NoLanguage

\* C20 (as claimed): getLanguageFromFile returns, without failing, the
\* language the listed table gives for the lower-cased extension of the
\* path and null for every other extension; no extension is in the table
\* of two languages; and the call leaves the state as it was.
C20_ResolvesByListedTable ==
  /\ \A i, j \in 1..Len(supportedLanguages) :
       i # j => supportedLanguages[i].extensions \cap
                  supportedLanguages[j].extensions = {}
  /\ mode = "resolve" =>
       /\ RunInit("resolve", <<>>, <<>>)
       /\ walk = NoWalk
  /\ pc = "resolved" =>
       /\ ~ret.threw
       /\ ret.value = ListedLanguage(ToLowerCase(ExtName(call.filePath)))


\* C24 (as claimed): getSourceFiles returns exactly the files of the
\* directory whose relative path contains no exclude pattern and, when
\* include patterns are given, contains at least one of them -- also a file
\* in a subdirectory.
C24_FilteredByPatterns ==
  pc = "scanned" =>
     LET excludePaths == Option(options, "excludePaths", DefaultExcludePaths)
         includePaths == Option(options, "includePaths", <<>>)
     IN  {files[i] : i \in 1..Len(files)} =
           {tree[i] : i \in {k \in 1..Len(tree) :
                               /\ ~Some(excludePaths, tree[k])
                               /\ (Len(includePaths) = 0
                                     \/ Some(includePaths, tree[k]))}}

\* A step in which the cancel route, having loaded the record, answers.
CancelAnswer == mode = "job" /\ route.pc = "loaded" /\ route'.pc = "idle"

\* What C27 says of every step of the route: a request that finds no record
\* is answered 404; a caller who is not the owner gets 403; a record the
\* route has read as completed, failed or cancelled gets 400; in all three
\* the stored record stays as it is.  Only a record read as pending or
\* running is changed: to cancelled, with its end time and duration, and
\* nothing else of it.
C27_GuardedCancel ==
  /\ (mode = "job" /\ route.pc = "idle" /\ route' # route) =>
        /\ db' = db
        /\ route'.pc = "idle" <=> route'.response = 404
  /\ CancelAnswer =>
        /\ route'.response \in {200, 400, 403}
        /\ route'.response = 403 <=> route.user # "owner"
        /\ route'.response = 400 <=>
             (route.user = "owner" /\ route.doc.status \in {"completed", "failed", "cancelled"})
        /\ route'.response # 200 => db' = db
        /\ route'.response = 200 =>
             /\ route.doc.status \in {"pending", "running"}
             /\ db' = [db EXCEPT !.status = "cancelled",
                                 !.endTime = clock',
                                 !.duration = Duration(route.doc.startTime, clock')]

TerminalStatus == {"completed", "failed", "cancelled"}

\* What C28 says of every state: the record is pending until the job has
\* marked it running; from then on the job's own copy says running until
\* the job completes or fails, and the stored record says running or a
\* terminal status; when the job is over the stored status is terminal, and
\* after an error outside the loop the job's record is failed with the
\* error's message and the stored record carries that message.
C28_NeverLeftRunning ==
  mode = "job" =>
     /\ pc \in {"start", "loaded"} => db.status \in {"pending", "cancelled"}
     /\ pc \in {"tree", "filter", "loop", "fetching"} =>
          /\ analysis.status = "running"
          /\ db.status \in {"running", "cancelled"}
     /\ pc = "catch" => idx = 0 /\ ret.threw
     /\ pc = "saving" =>
          /\ analysis.status = "completed"
          /\ db.status \in {"running", "cancelled"}
     /\ pc = "done" =>
          /\ db.status \in TerminalStatus
          /\ analysis.status \in {"completed", "failed"}
          /\ analysis.status = "failed" =>
               /\ ret.threw
               /\ analysis.error = ret.error
               /\ db.error = ret.error
               /\ db.status \in {"failed", "cancelled"}
               /\ db.endTime # NoTime

\* The job is over and the stored status is terminal.
C28_Ended == mode = "job" => (pc = "done" /\ db.status \in TerminalStatus)

\* C28: when the store and the file provider always answer, every started
\* job comes to its end and the stored status is from then on completed,
\* failed or cancelled; an error outside the loop ends in failed with the
\* error recorded, and the record is never left running.
C28_ReachesTerminalStatus == [](C28_NeverLeftRunning) /\ <>[](C28_Ended)

\* The tree listing has failed: the record is failed, with the message.
C28_Witness ==
  /\ mode = "job"
  /\ pc = "done"
  /\ db.status = "failed"
  /\ db.error = "Not Found"
  /\ db.startTime # NoTime
  /\ db.endTime # NoTime
  /\ db.progress = 0

\* The progress the loop has assigned after `processed` files of `total`.
LoopProgress(processed, total) ==
  IF processed = 0 THEN 20 ELSE 20 + (processed * 70) \div total

\* The progress of the job's document at each point of startAnalysis.
C29_ByPhase ==
  /\ analysis.progress \in 0..100
  /\ pc \in {"start", "loaded", "tree", "catch"} => analysis.progress = 0
  /\ pc = "filter" => analysis.progress = 10
  /\ pc \in {"loop", "fetching"} =>
       /\ analysis.progress = LoopProgress(locals.processedFiles, Len(files))
       /\ analysis.progress \in 20..90
  /\ pc = "saving" => analysis.progress = 100
  /\ analysis.progress = 100 => analysis.status = "completed"

\* The progress of the stored record: in range, never ahead of the job's
\* document, 10 once the tree is listed, 20 to 90 during the loop, and
\* below 100 as long as the job has not ended.
C29_Stored ==
  /\ db.progress \in 0..100
  /\ db.progress <= analysis.progress
  /\ pc = "filter" => db.progress = 10
  /\ pc \in {"loop", "fetching", "saving"} => db.progress \in 20..90
  /\ pc # "done" => db.progress < 100

\* No step lowers the progress, of the job's document or of the record,
\* and the step that stores 100 stores the status completed with it.
C29_Step ==
  /\ analysis'.progress >= analysis.progress
  /\ db'.progress >= db.progress
  /\ (db'.progress = 100 /\ db.progress # 100) => db'.status = "completed"

\* C29: during a background analysis the progress never decreases and lies
\* in 0..100; it is 10 after the tree listing, 20 after the filter,
\* 20 + floor(processed/total * 70), between 20 and 90, while files are
\* processed, and it becomes 100 only together with the status completed.
C29_ProgressMonotone ==
  [](mode = "job" => (C29_ByPhase /\ C29_Stored)) /\ [][C29_Step]_vars

\* Two files analysed: the progress has gone 10, 20, 55, 90 and is now 100
\* on a completed record.
C29_Witness ==
  /\ mode = "job"
  /\ pc = "done"
  /\ locals.processedFiles = 2
  /\ Len(files) = 2
  /\ analysis.progress = 100
  /\ db.progress = 100
  /\ db.status = "completed"

\* C30: at every point of analyzeRepository, analyzedFiles is the number of
\* entries of results.files and at most totalFiles once the files are
\* listed, totalLines is the sum of the entries' line counts, and
\* results.issues has as many issues as the entries' issuesCount add up to.
C30_CountersAgree ==
  mode = "repository" =>
     LET entries == results.files
         n == Len(entries)
     IN  /\ results.summary.analyzedFiles = n
         /\ n <= idx
         /\ results.summary.totalFiles = Len(files)
         /\ n <= results.summary.totalFiles
         /\ results.summary.totalLines =
              Sum([i \in 1..n |-> entries[i].metrics.lines])
         /\ Len(results.issues) = Sum([i \in 1..n |-> entries[i].issuesCount])

\* Two files listed and analysed, each with issues of its own.
C30_Witness ==
  /\ mode = "repository"
  /\ pc = "done"
  /\ Len(results.files) = 2
  /\ results.summary.totalFiles = 2
  /\ results.files[1].issuesCount > 0
  /\ results.files[2].issuesCount > 0
  /\ results.summary.totalLines > results.files[1].metrics.lines
  /\ Len(results.issues) > results.files[2].issuesCount

\* C26 (as claimed): once the cancel route has stored cancelled, the stored
\* status stays cancelled whatever the background job does afterwards.
C26_CancelledIsTerminal ==
  (mode = "job" /\ cancelMark.set) => db.status = "cancelled"

\* No two issues of a sequence have the same id.
UniqueIds(issues) ==
  \A i, j \in 1..Len(issues) : i # j => issues[i].id # issues[j].id

\* C16 (as claimed): within one run no two Findings have the same id, in the
\* results of analyzeRepository and in the Analysis document of the job.
C16_IdsUnique ==
  /\ UniqueIds(results.issues)
  /\ UniqueIds(analysis.issues)

\* The rule setting that governs the analyzer emitting issues of a type.
SettingOf(type) == IF type = "bug" THEN "bugs" ELSE type

\* C17 (as claimed): the issues of the job's Analysis document that an
\* analyzer has emitted (all but the parse-error issue) are of analyzers
\* whose rule the configuration of the analysis has enabled.
C17_DisabledRuleIsSilent ==
  mode = "job" =>
     \A i \in 1..Len(analysis.issues) :
       analysis.issues[i].rule.id # "parse-error" =>
         analysis.configuration.rules[SettingOf(analysis.issues[i].type)]

=============================================================================
